---- MODULE Spec2Model ----
(***************************************************************************)
(* The chest X-ray explainability engine of medical_ai_plat-AI:            *)
(*   backend/services/chest_xray_service.py  (CAM algorithms, Predictor,   *)
(*                                            ChestXrayService.predict)    *)
(*   backend/utils/redis_manager.py          (RedisManager get/set cache)  *)
(*   backend/app.py                          (start-up, /api/chest_xray)   *)
(*   backend/utils/model_manager.py          (ModelManager)                *)
(*                                                                         *)
(* Ten specifications share this module:                                   *)
(*   Spec       the prediction pipeline, one predict invocation at a time  *)
(*   SpecCls    the multi-label thresholding as a function of its inputs   *)
(*   SpecCAM    the three CAM algorithms as functions of captured tensors  *)
(*   SpecRender the rendering of a saliency map onto the original image    *)
(*   SpecConc   predict invocations interleaved on several request threads *)
(*   SpecStart  the start-up of the application and its first predictions  *)
(*   SpecCache  the result cache with two users and expiring entries       *)
(*   SpecRoute  the route /api/chest_xray around predict                   *)
(*   SpecStore  the cache and the result store under concurrent requests   *)
(*   SpecModels load_all_models and reload_model of the ModelManager       *)
(*                                                                         *)
(* A record lists its fields in the order in which the field names first   *)
(* appear in the module.                                                   *)
(***************************************************************************)
EXTENDS Integers, Sequences, FiniteSets, TLC

VARIABLES
    call,               \* per request thread: the locals and position of its predict
    started,            \* predict invocations started so far (the next uuid)
    last,               \* what the invocation before the current one left
    uploads,            \* files present in UPLOAD_FOLDER
    result_dir,         \* artifacts present in RESULT_DIR
    redis_client,       \* RedisManager.redis_client: "connected" or "none"
    redis_store,        \* what the Redis server holds, key -> <<bytes>> or <<>>
    optimal_thresholds, \* Predictor.optimal_thresholds
    net,                \* the loaded network: image -> sigmoid probabilities
    hooks,              \* hook pairs registered on the shared target layer
    model_forward,      \* forward passes of the shared model, all invocations
    cam_total,          \* CAM computations, all invocations
    cam,                \* one CAM object: captured tensors, locals, position of its __call__
    recorders,          \* per CAM object: hooks registered, its activations and gradients lists
    app,                \* the application process: startup position, artifacts on disk
    manager             \* the ModelManager: models, model_status, position of its calls

vars == <<call, started, last, uploads, result_dir, redis_client, redis_store,
          optimal_thresholds, net, hooks, model_forward, cam_total, cam, recorders, app,
          manager>>

----------------------------------------------------------------------------
(* Bounds of the model *)

\* predict invocations in one behaviour
MaxCalls == 2

\* request threads of the web server
MaxThreads == 2

\* tensors kept of one captured list; later captures are dropped unread
MaxCaptured == 2

\* Config.NUM_CLASSES (14 in config.py) scaled down; DISEASE_LABELS is cut to it
NUM_CLASSES == 2

\* positions of the target layer's output (16 x 16 for denseblock4)
LayerPixels == 2

\* input positions per layer position (32 for denseblock4 at 512 x 512)
Upscale == 2

\* layers of up to FewChannels channels take every combination of rows,
\* layers of TopK and MaxChannels channels repeat one row
FewChannels == 2

MaxChannels == 65

----------------------------------------------------------------------------
(* Values *)

None == <<>>
Some(x) == <<x>>

Threads == 1..MaxThreads
Classes == 1..NUM_CLASSES

DISEASE_LABELS ==
    <<"Atelectasis", "Cardiomegaly", "Effusion", "Infiltration",
      "Mass", "Nodule", "Pneumonia", "Pneumothorax",
      "Consolidation", "Edema", "Emphysema", "Fibrosis",
      "Pleural_Thickening", "Hernia">>

\* Extensions are compared as character sequences, as the code compares strings.
ALLOWED_EXTENSIONS == {<<"p","n","g">>, <<"j","p","g">>, <<"j","p","e","g">>}

\* str.lower on the characters file names are built from
Lower(ch) ==
    CASE ch = "P" -> "p" [] ch = "N" -> "n" [] ch = "G" -> "g"
      [] ch = "J" -> "j" [] ch = "E" -> "e" [] ch = "X" -> "x"
      [] OTHER -> ch

LowerStr(s) == [k \in 1..Len(s) |-> Lower(s[k])]

\* positions of '.' in a file name
DotPositions(s) == {k \in 1..Len(s) : s[k] = "."}

MaxOf(S) == CHOOSE m \in S : \A x \in S : x <= m

\* filename.rsplit('.', 1)[1]: what follows the last '.'
RsplitExt(s) == SubSeq(s, MaxOf(DotPositions(s)) + 1, Len(s))

RECURSIVE SumTo(_, _)
SumTo(f, n) == IF n = 0 THEN 0 ELSE f[n] + SumTo(f, n - 1)

----------------------------------------------------------------------------
(* Inputs of predict *)

\* uploaded file names, character by character: names the service accepts ...
GoodNames ==
    { <<"x",".","p","n","g">>,
      <<"x",".","J","P","e","G">> }

\* ... and names it does not: empty, no extension, another extension, an
\* allowed extension that is not the last one, an empty extension
BadNames ==
    { <<>>,
      <<"p","n","g">>,
      <<"x",".","g","i","f">>,
      <<"x",".","p","n","g",".","e","x","e">>,
      <<"x",".">> }

FileNames == GoodNames \cup BadNames

\* uploaded bytes: two images, a zero-byte upload, bytes that are no image
Contents == {"imgA", "imgB", "empty", "garbage"}

Images == {"imgA", "imgB"}

\* PIL.Image.open succeeds on image bytes only
Decodable(content) == content \in Images

\* (width, height) of a decoded image
ImageSize(content) == IF content = "imgA" THEN <<1024, 768>> ELSE <<640, 480>>

\* hashlib.md5(bytes).hexdigest(): one digest per content of the model
Md5(content) ==
    CASE content = "imgA" -> "d41a"
      [] content = "imgB" -> "9b2f"
      [] content = "empty" -> "d41d8cd9"
      [] OTHER -> "77c0"

CamClasses == {"gradcam", "gradcam++", "scorecam"}

\* requested cam_method values: the three supported ones and one that is not
Methods == CamClasses \cup {"foo"}

\* uploads: the images and the empty upload under every good name, the bytes
\* that are no image under one, one image under each bad name
Files ==
    [content : Images \cup {"empty"}, filename : GoodNames]
        \cup [content : {"garbage"}, filename : {<<"x",".","p","n","g">>}]
        \cup [content : {"imgA"}, filename : BadNames]

----------------------------------------------------------------------------
(* Program constants *)

\* k = min(64, activations.size(1)) in ScoreCAM.__call__
TopK == 64

\* transforms.Resize((512, 512)) and 'model_input_size': (512, 512)
InputSide == 512

\* channels of densenet.features.denseblock4, the target layer of the service
LayerChannels == 1024

\* spatial size of denseblock4's output for a 512 x 512 input
LayerSize == <<16, 16>>

Min(a, b) == IF a <= b THEN a ELSE b

\* 1 / 1e-8, the epsilon of the normalisations
EpsInv == 100000000

----------------------------------------------------------------------------
(* ChestXrayService.allowed_file *)

\* allowed_file without the test that the name holds a '.'
allowed_file_no_dot_test(filename) ==
    LET ext == IF DotPositions(filename) = {} THEN filename ELSE RsplitExt(filename)
    IN  LowerStr(ext) \in ALLOWED_EXTENSIONS

allowed_file(filename) ==
    /\ DotPositions(filename) # {}
    /\ LowerStr(RsplitExt(filename)) \in ALLOWED_EXTENSIONS

----------------------------------------------------------------------------
(* Predictor._load_optimal_thresholds and the thresholding loop *)

\* probabilities and thresholds in units of 0.00001: 50000 is 0.5
Half == 50000

\* a default of 0 in the place of 0.5
DefaultThresholdsOfZero == [c \in Classes |-> 0]

\* [0.5] * NUM_CLASSES
DefaultThresholds == [c \in Classes |-> Half]

\* what torch.load finds at optimal_thresholds.pth
\*   kind: "absent" | "list" | "ndarray" | "dict" | "tensor"
\*   key : the key a dict artifact stores its vector under
load_optimal_thresholds(artifact) ==
    IF artifact.kind = "absent" THEN DefaultThresholds
    ELSE IF artifact.kind \in {"list", "ndarray"} THEN artifact.values
    ELSE IF artifact.kind = "dict" /\ artifact.key = "Optimal_Threshold"
         THEN artifact.values
    ELSE DefaultThresholds

\* predictions = zeros_like(probabilities);
\* for i, threshold in enumerate(thresholds): predictions[:, i] = probabilities[:, i] > threshold
\* An index past the last class raises IndexError.
ThresholdRaises(thresholds) == Len(thresholds) > NUM_CLASSES

\* the comparison with >= in the place of >
PositiveNonStrict(p, t) == p >= t

\* probabilities[:, i] > threshold
Positive(p, t) == p > t

ApplyThresholds(probabilities, thresholds) ==
    [c \in Classes |->
        IF c <= Len(thresholds) /\ Positive(probabilities[c], thresholds[c])
        THEN 1 ELSE 0]

\* the first index of the largest value among the classes predicted positive,
\* the first class when there is none
ArgMaxOfPositive(p) ==
    LET positive == {c \in DOMAIN p : p[c] > Half}
        among == IF positive = {} THEN {1} ELSE positive
    IN  CHOOSE c \in among :
            /\ \A d \in among : p[d] <= p[c]
            /\ \A d \in among : p[d] = p[c] => c <= d

\* np.argmax: the first index of the largest value
ArgMax(p) ==
    CHOOSE c \in DOMAIN p :
        /\ \A d \in DOMAIN p : p[d] <= p[c]
        /\ \A d \in DOMAIN p : p[d] = p[c] => c <= d

----------------------------------------------------------------------------
(* The CAM algorithms: CAMBase, GradCAM, GradCAMPlusPlus, ScoreCAM *)

\* The target layer's output is one row of LayerPixels positions per channel,
\* the network's input one row of Upscale positions per layer position.
\* A tensor is a sequence of rows, one per channel; a row maps 1..n to integers.
Pixels == 1..LayerPixels

InputPixels == 1..(Upscale * LayerPixels)

MinOf(S) == CHOOSE m \in S : \A x \in S : m <= x

Range(f) == {f[x] : x \in DOMAIN f}

\* F.relu
Relu(x) == IF x > 0 THEN x ELSE 0

\* A number of a returned map: n / (d + k*eps + m*eps^2) with eps = 1e-8 and
\* integers n, d, k, m whose denominator is positive. |k| and |m| stay below
\* EpsInv, so the order of two such numbers is decided by the first
\* coefficient in which they differ.
Num(n, d, k, m) == [k |-> k, m |-> m, n |-> n, d |-> d]

Abs(x) == IF x < 0 THEN -x ELSE x

IsZero(x) == x.n = 0

\* 0 <= x <= 1
InUnit(x) ==
    /\ Abs(x.k) < EpsInv /\ Abs(x.m) < EpsInv
    /\ x.n >= 0
    /\ \/ x.n < x.d
       \/ x.n = x.d /\ (x.k > 0 \/ (x.k = 0 /\ x.m >= 0))

\* lines 82-86, 117-121, 180-184: ReLU, then min-max normalisation when the
\* map is not flat. x holds the numerators of the weighted sum, den = <<a, b>>
\* its common denominator a + b*eps.
\*   cam = F.relu(cam)
\*   if cam_max > cam_min: cam = (cam - cam_min) / (cam_max - cam_min + 1e-8)
Postprocess(x, den) ==
    LET relu == [p \in DOMAIN x |-> Relu(x[p])]
        cam_min == MinOf(Range(relu))
        cam_max == MaxOf(Range(relu))
    IN  IF cam_max > cam_min
        THEN [flat |-> FALSE,
              map |-> [p \in DOMAIN x |->
                         Num(relu[p] - cam_min, cam_max - cam_min, den[1], den[2])]]
        ELSE [flat |-> TRUE,
              map |-> [p \in DOMAIN x |-> Num(relu[p], den[1], den[2], 0)]]

\* every channel weighted 1: the gradient is ignored
GradCamWeightsUniform(gradients) == [c \in DOMAIN gradients |-> LayerPixels]

\* lines 71-74: weights = mean(relu(gradients), dim=(2, 3)), as numerators
\* over LayerPixels
GradCamWeights(gradients) ==
    [c \in DOMAIN gradients |->
        SumTo([p \in Pixels |-> Relu(gradients[c][p])], LayerPixels)]

\* lines 77-79, 112-114: cam = sum over the channels of w * activations[0, i]
WeightedSum(weights, activations) ==
    [p \in Pixels |->
        SumTo([c \in DOMAIN activations |-> weights[c] * activations[c][p]],
              Len(activations))]

\* GradCAM.__call__ on the captured tensors, lines 67-88
GradCamMap(activations, gradients) ==
    Postprocess(WeightedSum(GradCamWeights(gradients), activations),
                <<LayerPixels, 0>>)

\* GradCAMPlusPlus.__call__ on the captured tensors of a layer of one channel
\* whose gradient has no value over 1, lines 100-123:
\*   alpha = g^2 / (2 g^2 + sum(a g^3) + eps); weight = sum(alpha * relu(g))
\* Every position with g > 0 has g = 1 and the denominator 2 + S + eps, so
\* the weight is n / (D + eps) with n = sum(g^2 relu(g)) and D = 2 + S.
PlusPlusS(a, g) == SumTo([p \in Pixels |-> a[p] * g[p] * g[p] * g[p]], LayerPixels)

PlusPlusN(g) == SumTo([p \in Pixels |-> g[p] * g[p] * Relu(g[p])], LayerPixels)

GradCamPlusPlusMap(activations, gradients) ==
    LET a == activations[1]
        g == gradients[1]
        n == PlusPlusN(g)
        D == 2 + PlusPlusS(a, g)
        sign == IF D >= 0 THEN 1 ELSE -1
    IN  IF n = 0
        THEN Postprocess([p \in Pixels |-> 0], <<1, 0>>)
        ELSE Postprocess([p \in Pixels |-> sign * n * a[p]], <<Abs(D), sign>>)

\* ScoreCAM, line 140: channel_importance = mean over the positions of the
\* ReLU'd activations, as numerators over LayerPixels
ChannelImportance(activations) ==
    [c \in DOMAIN activations |->
        SumTo([p \in Pixels |-> Relu(activations[c][p])], LayerPixels)]

\* k without the clamp to 64
TopKCountNoClamp(channels) == channels

\* line 143: k = min(64, activations.size(1))
TopKCount(channels) == Min(TopK, channels)

\* line 144: torch.topk, the k channels of largest importance in descending
\* order, the lower index first among equals
Before(importance, j, i) ==
    \/ importance[j] > importance[i]
    \/ importance[j] = importance[i] /\ j < i

Rank(importance, i) ==
    1 + Cardinality({j \in DOMAIN importance : Before(importance, j, i)})

TopKIndices(importance, k) ==
    [r \in 1..k |-> CHOOSE i \in DOMAIN importance : Rank(importance, i) = r]

\* lines 155-160: F.interpolate(mode='bilinear', align_corners=False) of one
\* row to the input's size. Output position j (from 0) reads the source
\* coordinate max(0, (j + 0.5) / Upscale - 0.5) = s / (2 Upscale).
\* The rows of the model hold multiples of 2 * Upscale, so the values are integers.
Upsample(row) ==
    [j \in InputPixels |->
        LET s == IF 2 * (j - 1) + 1 - Upscale > 0 THEN 2 * (j - 1) + 1 - Upscale ELSE 0
            i0 == s \div (2 * Upscale)
            rem == s % (2 * Upscale)
            i1 == Min(i0 + 1, LayerPixels - 1)
        IN  ((2 * Upscale - rem) * row[i0 + 1] + rem * row[i1 + 1]) \div (2 * Upscale)]

RECURSIVE Pow2(_)
Pow2(n) == IF n = 0 THEN 1 ELSE 2 * Pow2(n - 1)

\* lines 163-164: the softmax over the positions of the upsampled row, to the
\* base 2 in the place of e so that its values are rationals:
\* mask[j] = MaskNum(row)[j] / MaskSum(row)
MaskNum(row) ==
    LET upsampled == Upsample([p \in Pixels |-> Relu(row[p])])
    IN  [j \in InputPixels |-> Pow2(upsampled[j])]

MaskSum(row) == SumTo(MaskNum(row), Upscale * LayerPixels)

RECURSIVE Gcd(_, _)
Gcd(a, b) == IF b = 0 THEN a ELSE Gcd(b, a % b)

Lcm(a, b) == (a \div Gcd(a, b)) * b

RECURSIVE LcmOfSet(_)
LcmOfSet(S) ==
    IF S = {} THEN 1
    ELSE LET x == CHOOSE x \in S : TRUE
         IN  Lcm(x, LcmOfSet(S \ {x}))

\* the least common denominator of the masks of the channels in order
MaskScale(activations, order) ==
    LcmOfSet({MaskSum(activations[order[r]]) : r \in DOMAIN order})

\* line 177: cam += score * upsampled_norm[0, 0] * channel_importance[i],
\* as numerators over scale * LayerPixels
Accumulate(acc, score, row, scale) ==
    LET importance == SumTo([p \in Pixels |-> Relu(row[p])], LayerPixels)
        mask == MaskNum(row)
        unit == scale \div MaskSum(row)
    IN  [j \in InputPixels |-> acc[j] + score * importance * mask[j] * unit]

\* a CAM object nobody has called
\*   pc: "idle" | "constructed" | "scoring" | "done"
IdleCam ==
    [flat |-> FALSE,              \* the post-ReLU map had cam_max = cam_min
     gradients |-> <<>>,          \* what the backward hook captures
     activations |-> <<>>,        \* what the forward hook captures
     order |-> <<>>,              \* ScoreCAM: top_k_indices
     acc |-> <<>>,                \* ScoreCAM: the buffer cam, as numerators
     scale |-> 1,                 \* ScoreCAM: common denominator of the masks
     pc |-> "idle",
     method |-> "gradcam",
     targets |-> Some(1),         \* the targets argument: Some(class) or None
     wired |-> TRUE,              \* the target layer lies on the model's forward path
     error |-> "none",            \* the exception __call__ raised
     passes |-> 0,                \* forward passes of the model in this __call__
     backward |-> 0,              \* backward passes in this __call__
     pos |-> 0,                   \* ScoreCAM: position of the loop in order
     out |-> <<>>]                \* the returned map

----------------------------------------------------------------------------
(* RedisManager._serialize_data / _deserialize_data on a result dict *)

\* A Python sequence value keeps its type: "tuple" or "list".
PyTuple(items) == [items |-> items, type |-> "tuple"]
PyList(items) == [items |-> items, type |-> "list"]

\* A JSON text is modelled by the value tree it denotes; tuples and lists are
\* both written as arrays.
JsonArray(v) == [items |-> v.items, type |-> "array"]

\* a serializer that writes probabilities with four decimals
serialize_data_rounded(data) ==
    [encoding |-> "json",
     text |-> [data EXCEPT
         !.predictions = [l \in DOMAIN @ |->
             [@[l] EXCEPT !.probability = (@ \div 10) * 10]],
         !.original_size = JsonArray(@),
         !.model_input_size = JsonArray(@)]]

\* json.dumps(data, ensure_ascii=False).encode('utf-8') for a dict
serialize_data(data) ==
    [encoding |-> "json",
     text |-> [data EXCEPT !.original_size = JsonArray(@),
                           !.model_input_size = JsonArray(@)]]

\* json.loads gives a list for every array
JsonLoadsArray(a) == PyList(a.items)

\* json.loads(data.decode('utf-8')); bytes that are neither JSON nor a pickle give None
deserialize_data(bytes) ==
    IF bytes.encoding = "json"
    THEN Some([bytes.text EXCEPT !.original_size = JsonLoadsArray(@),
                                 !.model_input_size = JsonLoadsArray(@)])
    ELSE None

----------------------------------------------------------------------------
(* Names and keys *)

\* secure_filename(f"{uuid.uuid4()}_{file.filename}"): the uuid of an invocation
\* is its number; the file names of the model hold only characters that
\* secure_filename keeps.
TempName(i, filename) == [uuid |-> i, name |-> filename]

\* a key built from the hash of the bytes alone
CacheKeyWithoutMethod(content, cam_method) == <<"chest_xray", Md5(content), "gradcam">>

\* f"chest_xray:{file_hash}:{cam_method}"
CacheKey(content, cam_method) == <<"chest_xray", Md5(content), cam_method>>

CacheKeys == {CacheKey(c, m) : c \in Contents, m \in Methods}

\* f'heatmap_{cam_method}_{filename}', f'superimposed_{cam_method}_{filename}'
ArtifactName(prefix, cam_method, filename) ==
    [filename |-> filename, cam_method |-> cam_method, prefix |-> prefix]

----------------------------------------------------------------------------
(* Start-up: ChestXrayService.__init__ and the application that constructs it *)

\* what is at CHECKPOINT_DIR/best_model.pth:
\*   "valid"         a checkpoint whose 'model_state_dict' fits DenseNet121
\*   "missing"       no file
\*   "unreadable"    torch.load raises
\*   "no_state_dict" a pickle without the key 'model_state_dict'
\*   "mismatched"    a state dict load_state_dict rejects
Checkpoints == {"valid", "missing", "unreadable", "no_state_dict", "mismatched"}

\* the try block with the existence test left out: the pretrained weights stay
load_model_without_exists_test(checkpoint) ==
    IF checkpoint \in {"valid", "missing"} THEN "loaded" ELSE "RuntimeError"

\* the try block of ChestXrayService.__init__: every exception becomes RuntimeError
load_model(checkpoint) ==
    IF checkpoint = "valid" THEN "loaded" ELSE "RuntimeError"

\* the absent threshold artifact
AbsentArtifact == [kind |-> "absent", values |-> <<>>, key |-> ""]

\* the application once both constructions have succeeded
ServingApp(artifact) ==
    [artifact |-> artifact,
     pc |-> "serving",
     error |-> "none",
     checkpoint |-> "valid",
     service |-> "constructed",
     chest_xray_service |-> "constructed"]

----------------------------------------------------------------------------
(* ModelManager of utils/model_manager.py.  The loaders await nothing that   *)
(* suspends, so the tasks of load_all_models run one after the other in the  *)
(* order they were created in.                                               *)

\* MODEL_CONFIGS.keys() in the order of config.py, lines 102-150
ModelNames == <<"medical_qa", "heart_disease", "tumor", "diabetes", "chest_xray">>

ConfiguredModels == {ModelNames[i] : i \in DOMAIN ModelNames}

\* ModelManager.__init__, lines 24-28: no model, no status; no call made yet
NewManager ==
    [pc |-> "idle",
     models |-> {},
     model_status |-> [name \in ConfiguredModels |-> "absent"],
     results |-> [name \in ConfiguredModels |-> "none"],
     returned |-> None,
     completed |-> None]

\* _load_medical_qa_model, lines 84-108, catches what its body raises and
\* installs a predictor in either case; the other loaders re-raise
LoaderOutcomes(model_name) ==
    IF model_name = "medical_qa" THEN {TRUE} ELSE BOOLEAN

\* _load_model_async, lines 54-82, its loader finishing (ok) or raising: the
\* manager after it
load_model_async(m, model_name, ok) ==
    IF ok
    THEN [m EXCEPT !.models = @ \cup {model_name}]
    ELSE [m EXCEPT !.model_status[model_name] = "failed"]

\* the value _load_model_async returns, lines 77 and 82
LoadResult(ok) == IF ok THEN "True" ELSE "False"

\* line 43: isinstance(result, Exception)
IsException(result) == result \notin {"True", "False"}

\* is_model_loaded, lines 219-221
is_model_loaded(model_name) ==
    /\ model_name \in manager.models
    /\ manager.model_status[model_name] = "loaded"

\* load_all_models, lines 30-37: one task per configured model
LoadAllModels ==
    /\ manager.pc = "idle"
    /\ manager' = [manager EXCEPT
                       !.pc = "gathering",
                       !.results = [name \in ConfiguredModels |-> "pending"],
                       !.returned = None]
    /\ UNCHANGED <<call, started, last, uploads, result_dir, redis_client, redis_store,
                   optimal_thresholds, net, hooks, model_forward, cam_total, cam,
                   recorders, app>>

\* the next task of the gather of line 39 runs _load_model_async to its end
LoadModelTask(i, ok) ==
    /\ manager.pc = "gathering"
    /\ manager.results[ModelNames[i]] = "pending"
    /\ \A j \in 1..(i - 1) : manager.results[ModelNames[j]] # "pending"
    /\ manager' = [load_model_async(manager, ModelNames[i], ok) EXCEPT
                       !.results[ModelNames[i]] = LoadResult(ok)]
    /\ UNCHANGED <<call, started, last, uploads, result_dir, redis_client, redis_store,
                   optimal_thresholds, net, hooks, model_forward, cam_total, cam,
                   recorders, app>>

\* load_all_models, lines 39-52: the statuses from the gathered results, and
\* the map it returns
GatherDone ==
    /\ manager.pc = "gathering"
    /\ \A name \in ConfiguredModels : manager.results[name] # "pending"
    /\ LET status == [name \in ConfiguredModels |->
                          IF IsException(manager.results[name])
                          THEN "failed" ELSE "loaded"]
       IN  manager' = [manager EXCEPT
                           !.pc = "idle",
                           !.model_status = status,
                           !.returned = Some([name \in ConfiguredModels |->
                                                  status[name] = "loaded"]),
                           !.completed = Some(<<"load_all_models">>)]
    /\ UNCHANGED <<call, started, last, uploads, result_dir, redis_client, redis_store,
                   optimal_thresholds, net, hooks, model_forward, cam_total, cam,
                   recorders, app>>

\* reload_model, lines 243-250
ReloadModel(model_name, ok) ==
    /\ manager.pc = "idle"
    /\ manager' = [load_model_async([manager EXCEPT !.models = @ \ {model_name}],
                                    model_name, ok)
                       EXCEPT !.completed = Some(<<"reload_model", model_name,
                                                   LoadResult(ok)>>)]
    /\ UNCHANGED <<call, started, last, uploads, result_dir, redis_client, redis_store,
                   optimal_thresholds, net, hooks, model_forward, cam_total, cam,
                   recorders, app>>

----------------------------------------------------------------------------
(* CAMBase: the hooks on the shared target layer and the captured lists.    *)
(* A captured tensor is represented by the uuid of the invocation whose     *)
(* pass through the layer produced it.                                      *)

\* one CAM object per predict invocation, named by the invocation's uuid
CamObjects == 1..MaxCalls

NoRecorder == [gradients |-> <<>>, activations |-> <<>>, registered |-> FALSE]

\* list.append of lines 41 and 43
Capture(list, tensor) ==
    IF Len(list) < MaxCaptured THEN Append(list, tensor) ELSE list

\* CAMBase.__init__, lines 35-37, and _register_hooks
RegisterHooks(recs, obj) ==
    [recs EXCEPT ![obj] = [gradients |-> <<>>, activations |-> <<>>, registered |-> TRUE]]

\* _get_activations_gradients, lines 52-53
ResetCaptures(recs, obj) ==
    [recs EXCEPT ![obj].activations = <<>>, ![obj].gradients = <<>>]

\* the objects whose hooks are on the layer
Registered(recs) == {obj \in DOMAIN recs : recs[obj].registered}

\* a forward pass of the shared model: forward_hook of every registered object
ForwardPass(recs, tensor) ==
    [obj \in DOMAIN recs |->
        IF obj \in Registered(recs)
        THEN [recs[obj] EXCEPT !.activations = Capture(@, tensor)]
        ELSE recs[obj]]

\* n forward passes in a row; a full list takes no more
RECURSIVE ForwardPasses(_, _, _)
ForwardPasses(recs, tensor, n) ==
    IF n = 0 THEN recs
    ELSE ForwardPasses(ForwardPass(recs, tensor), tensor, Min(n, MaxCaptured) - 1)

\* a backward pass: backward_hook of every object whose hook was on the layer
\* when the forward pass of this graph ran
BackwardPass(recs, tensor, attached) ==
    [obj \in DOMAIN recs |->
        IF obj \in attached
        THEN [recs[obj] EXCEPT !.gradients = Capture(@, tensor)]
        ELSE recs[obj]]

\* GradCAM and GradCAM++ run the backward pass, ScoreCAM runs under no_grad
UsesGradients(cam_method) == cam_method # "scorecam"

\* lines 67-68, 98 and 132: element 0 of the object's lists
ReadCaptures(recs, obj, cam_method) ==
    [activation |-> recs[obj].activations[1],
     gradient |-> IF UsesGradients(cam_method) THEN recs[obj].gradients[1] ELSE 0]

----------------------------------------------------------------------------
(* ChestXrayService.predict, one action per step of the method *)

IdleCall ==
    [pc |-> "idle",
     error |-> "none",            \* the exception predict raised
     original_size |-> None,
     uuid |-> 0,
     cam_method |-> "gradcam",
     results |-> None,            \* Some(dict) once predict has returned
     attached |-> {},             \* objects whose backward hook is on this call's graph
     file |-> [content |-> "empty", filename |-> <<>>],
     user_id |-> None,            \* the user_id argument, Some(user) when given
     file_path |-> None,          \* Some(TempName) once the upload is saved
     cache_key |-> None,
     pred_probs |-> <<>>,
     pred_labels |-> <<>>,
     class_idx |-> 0,
     cam_target |-> 0,            \* the targets argument of the CAM call
     cam_read |-> None,           \* Some(the tensors the CAM object read at index 0)
     steps |-> <<>>,              \* the steps of the pipeline taken, in order
     response |-> None,           \* Some(what the route answered the client)
     heatmap |-> None,            \* Some(shape of the saliency map)
     hit |-> FALSE,               \* the cache lookup returned a stored result
     preprocessed |-> FALSE,      \* the transform was applied to the image
     forward_passes |-> 0,        \* model forward passes of this invocation
     cam_calls |-> 0,             \* CAM computations of this invocation
     cache_reads |-> 0,           \* get_cache calls of this invocation
     cache_writes |-> 0,          \* set_cache calls of this invocation
     cached |-> FALSE]            \* set_cache returned True

NoLast ==
    [model_forward |-> 0,
     cam_total |-> 0,
     cam_method |-> "gradcam",
     results |-> None,
     file |-> [content |-> "empty", filename |-> <<>>],
     user_id |-> None,
     in_cache |-> FALSE]

Finished(t) == call[t].pc \in {"done", "failed"}

\* what a returned invocation leaves for the next one to be compared with
\*   in_cache: its result was in the cache under its key when it returned
Summary(t) ==
    [model_forward |-> model_forward,
     cam_total |-> cam_total,
     cam_method |-> call[t].cam_method,
     results |-> call[t].results,
     file |-> call[t].file,
     user_id |-> call[t].user_id,
     in_cache |-> call[t].hit \/ call[t].cached]

\* lines 302-309: validate the file name, save the upload under a fresh name
Receive(t, file, cam_method, user_id) ==
    /\ app.pc = "serving"
    /\ call[t].pc = "idle" \/ Finished(t)
    /\ started < MaxCalls
    /\ started' = started + 1
    /\ last' = IF Finished(t) THEN Summary(t) ELSE last
    /\ LET fresh == [IdleCall EXCEPT !.uuid = started + 1,
                                     !.file = file,
                                     !.cam_method = cam_method,
                                     !.user_id = user_id]
       IN  IF file.filename = <<>> \/ ~allowed_file(file.filename)
           THEN /\ call' = [call EXCEPT ![t] =
                        [fresh EXCEPT !.pc = "failed", !.error = "InvalidFileFormat"]]
                /\ UNCHANGED uploads
           ELSE /\ call' = [call EXCEPT ![t] =
                        [fresh EXCEPT !.pc = "saved",
                                      !.file_path = Some(TempName(started + 1, file.filename))]]
                /\ uploads' = uploads \cup {TempName(started + 1, file.filename)}
    /\ UNCHANGED <<manager, app, recorders, cam, result_dir, redis_client, redis_store, optimal_thresholds, net,
                   hooks, model_forward, cam_total>>

\* RedisManager.get_cache, lines 136-159: None without a client, on an
\* exception of the client (raises) and for a key that is not stored
get_cache(key, raises) ==
    IF redis_client = "none" \/ raises \/ redis_store[key] = None
    THEN None
    ELSE deserialize_data(redis_store[key][1])

\* CacheLookup without the return of line 326: a hit falls through to the computation
CacheLookupFallThrough(t) ==
    /\ call[t].pc = "saved"
    /\ \E raises \in BOOLEAN :
        LET cache_key == CacheKey(call[t].file.content, call[t].cam_method)
            cached_result == get_cache(cache_key, raises)
        IN  call' = [call EXCEPT ![t].pc = "miss",
                                 ![t].cache_key = Some(cache_key),
                                 ![t].cache_reads = @ + 1,
                                 ![t].hit = (cached_result # None),
                                 ![t].results = cached_result]
    /\ UNCHANGED <<manager, app, recorders, cam, started, last, uploads, result_dir, redis_client, redis_store,
                   optimal_thresholds, net, hooks, model_forward, cam_total>>

\* lines 311-328: hash the saved bytes, look the key up, return on a hit
CacheLookup(t) ==
    /\ call[t].pc = "saved"
    /\ \E raises \in BOOLEAN :
        LET cache_key == CacheKey(call[t].file.content, call[t].cam_method)
            cached_result == get_cache(cache_key, raises)
        IN  IF cached_result # None
            THEN /\ call' = [call EXCEPT ![t].pc = "done",
                                         ![t].cache_key = Some(cache_key),
                                         ![t].cache_reads = @ + 1,
                                         ![t].hit = TRUE,
                                         ![t].results = cached_result]
                 /\ uploads' = uploads \ {call[t].file_path[1]}
            ELSE /\ call' = [call EXCEPT ![t].pc = "miss",
                                         ![t].cache_key = Some(cache_key),
                                         ![t].cache_reads = @ + 1]
                 /\ UNCHANGED uploads
    /\ UNCHANGED <<manager, app, recorders, cam, started, last, result_dir, redis_client, redis_store,
                   optimal_thresholds, net, hooks, model_forward, cam_total>>

\* lines 330-333: Image.open(file_path).convert('RGB'); PIL raises
\* UnidentifiedImageError on bytes that are no image
Decode(t) ==
    /\ call[t].pc = "miss"
    /\ IF Decodable(call[t].file.content)
       THEN call' = [call EXCEPT ![t].pc = "decoded",
                                 ![t].original_size = Some(ImageSize(call[t].file.content))]
       ELSE call' = [call EXCEPT ![t].pc = "failed",
                                 ![t].error = "UnidentifiedImageError"]
    /\ UNCHANGED <<manager, app, recorders, cam, started, last, uploads, result_dir, redis_client, redis_store,
                   optimal_thresholds, net, hooks, model_forward, cam_total>>

\* lines 340-355, 374-376: transform, forward pass, sigmoid, thresholds, argmax
Classify(t) ==
    /\ call[t].pc = "decoded"
    /\ model_forward' = model_forward + 1
    /\ recorders' = ForwardPass(recorders, call[t].uuid)
    /\ LET probabilities == net[call[t].file.content]
       IN  IF ThresholdRaises(optimal_thresholds)
           THEN call' = [call EXCEPT ![t].pc = "failed",
                                     ![t].preprocessed = TRUE,
                                     ![t].steps = @ \o <<"preprocess", "classify">>,
                                     ![t].forward_passes = @ + 1,
                                     ![t].error = "IndexError"]
           ELSE call' = [call EXCEPT ![t].pc = "classified",
                                     ![t].preprocessed = TRUE,
                                     ![t].steps = @ \o <<"preprocess", "classify">>,
                                     ![t].forward_passes = @ + 1,
                                     ![t].pred_probs = probabilities,
                                     ![t].pred_labels =
                                         ApplyThresholds(probabilities, optimal_thresholds),
                                     ![t].class_idx = ArgMax(probabilities)]
    /\ UNCHANGED <<manager, app, cam, started, last, uploads, result_dir, redis_client, redis_store,
                   optimal_thresholds, net, hooks, cam_total>>

\* forward passes of one CAM computation on a layer of `channels` channels:
\* _get_activations_gradients runs one, ScoreCAM one more per kept channel
CamForwardPasses(cam_method, channels) ==
    IF cam_method = "scorecam" THEN 1 + Min(TopK, channels) ELSE 1

\* GradCAM and GradCAM++ return the map at the layer's size, ScoreCAM at the input's
CamShape(cam_method) ==
    IF cam_method = "scorecam" THEN <<InputSide, InputSide>> ELSE LayerSize

\* one recorder for the whole process, registered once and never emptied
CamRecordersProcessGlobal(recs, obj, cam_method) ==
    LET constructed == IF recs[1].registered THEN recs ELSE RegisterHooks(recs, 1)
        forward == ForwardPass(constructed, obj)
        backward == IF UsesGradients(cam_method)
                    THEN BackwardPass(forward, obj, Registered(constructed))
                    ELSE forward
    IN  [read |-> ReadCaptures(backward, 1, cam_method),
         final |-> ForwardPasses(backward, obj,
                                 CamForwardPasses(cam_method, LayerChannels) - 1)]

\* the captured lists after a whole CAM computation of object obj with no
\* other pass in between: construction, reset, forward, backward, read, masked passes
CamRecorders(recs, obj, cam_method) ==
    LET constructed == RegisterHooks(recs, obj)
        reset == ResetCaptures(constructed, obj)
        forward == ForwardPass(reset, obj)
        backward == IF UsesGradients(cam_method)
                    THEN BackwardPass(forward, obj, Registered(constructed))
                    ELSE forward
    IN  [read |-> ReadCaptures(backward, obj, cam_method),
         final |-> ForwardPasses(backward, obj,
                                 CamForwardPasses(cam_method, LayerChannels) - 1)]

\* lines 386-389 and generate_heatmap, lines 290-300
GenerateHeatmap(t) ==
    /\ call[t].pc = "classified"
    /\ IF call[t].cam_method \notin CamClasses
       THEN /\ call' = [call EXCEPT ![t].pc = "failed",
                                    ![t].error = "UnsupportedCAMMethod"]
            /\ UNCHANGED <<manager, hooks, model_forward, cam_total, recorders>>
       ELSE /\ call' = [call EXCEPT
                 ![t].pc = "heatmap",
                 ![t].cam_calls = @ + 1,
                 ![t].forward_passes =
                     @ + CamForwardPasses(call[t].cam_method, LayerChannels),
                 ![t].cam_target = call[t].class_idx,
                 ![t].attached = IF UsesGradients(call[t].cam_method)
                                 THEN Registered(recorders) \cup {call[t].uuid}
                                 ELSE {},
                 ![t].cam_read =
                     Some(CamRecorders(recorders, call[t].uuid, call[t].cam_method).read),
                 ![t].steps = @ \o <<"capture", "compute">>,
                 ![t].heatmap = Some(CamShape(call[t].cam_method))]
            /\ recorders' =
                   CamRecorders(recorders, call[t].uuid, call[t].cam_method).final
            /\ hooks' = hooks + 1
            /\ model_forward' =
                   model_forward + CamForwardPasses(call[t].cam_method, LayerChannels)
            /\ cam_total' = cam_total + 1
    /\ UNCHANGED <<manager, app, cam, started, last, uploads, result_dir, redis_client, redis_store,
                   optimal_thresholds, net>>

\* generate_heatmap up to the construction of the CAM object, lines 291-299
CamConstruct(t) ==
    /\ call[t].pc = "classified"
    /\ IF call[t].cam_method \notin CamClasses
       THEN /\ call' = [call EXCEPT ![t].pc = "failed",
                                    ![t].error = "UnsupportedCAMMethod"]
            /\ UNCHANGED <<manager, hooks, recorders>>
       ELSE /\ call' = [call EXCEPT ![t].pc = "cam_constructed"]
            /\ recorders' = RegisterHooks(recorders, call[t].uuid)
            /\ hooks' = hooks + 1
    /\ UNCHANGED <<manager, app, cam, started, last, uploads, result_dir, redis_client, redis_store,
                   optimal_thresholds, net, model_forward, cam_total>>

\* the CAM object is called, line 300; _get_activations_gradients empties its lists
CamReset(t) ==
    /\ call[t].pc = "cam_constructed"
    /\ call' = [call EXCEPT ![t].pc = "cam_reset", ![t].cam_calls = @ + 1]
    /\ cam_total' = cam_total + 1
    /\ recorders' = ResetCaptures(recorders, call[t].uuid)
    /\ UNCHANGED <<manager, app, cam, started, last, uploads, result_dir, redis_client, redis_store,
                   optimal_thresholds, net, hooks, model_forward>>

\* the forward pass of _get_activations_gradients, line 54
CamForward(t) ==
    /\ call[t].pc = "cam_reset"
    /\ call' = [call EXCEPT ![t].pc = "cam_forward",
                            ![t].forward_passes = @ + 1,
                            ![t].steps = @ \o <<"capture">>,
                            ![t].attached = IF UsesGradients(call[t].cam_method)
                                            THEN Registered(recorders)
                                            ELSE {}]
    /\ model_forward' = model_forward + 1
    /\ recorders' = ForwardPass(recorders, call[t].uuid)
    /\ UNCHANGED <<manager, app, cam, started, last, uploads, result_dir, redis_client, redis_store,
                   optimal_thresholds, net, hooks, cam_total>>

\* target_score.backward(), lines 65 and 95
CamBackward(t) ==
    /\ call[t].pc = "cam_forward"
    /\ UsesGradients(call[t].cam_method)
    /\ call' = [call EXCEPT ![t].pc = "cam_backward"]
    /\ recorders' = BackwardPass(recorders, call[t].uuid, call[t].attached)
    /\ UNCHANGED <<manager, app, cam, started, last, uploads, result_dir, redis_client, redis_store,
                   optimal_thresholds, net, hooks, model_forward, cam_total>>

\* the object reads element 0 of its lists and computes the map; ScoreCAM then
\* runs its masked forward passes
CamCompute(t) ==
    /\ call[t].pc = IF UsesGradients(call[t].cam_method) THEN "cam_backward"
                                                        ELSE "cam_forward"
    /\ call' = [call EXCEPT
           ![t].pc = "heatmap",
           ![t].forward_passes =
               @ + CamForwardPasses(call[t].cam_method, LayerChannels) - 1,
           ![t].cam_target = call[t].class_idx,
           ![t].cam_read =
               Some(ReadCaptures(recorders, call[t].uuid, call[t].cam_method)),
           ![t].steps = @ \o <<"compute">>,
           ![t].heatmap = Some(CamShape(call[t].cam_method))]
    /\ model_forward' =
           model_forward + CamForwardPasses(call[t].cam_method, LayerChannels) - 1
    /\ recorders' = ForwardPasses(recorders, call[t].uuid,
                                  CamForwardPasses(call[t].cam_method, LayerChannels) - 1)
    /\ UNCHANGED <<manager, app, cam, started, last, uploads, result_dir, redis_client, redis_store,
                   optimal_thresholds, net, hooks, cam_total>>

HeatmapFile(t) ==
    ArtifactName("heatmap", call[t].cam_method, call[t].file_path[1])

SuperimposedFile(t) ==
    ArtifactName("superimposed", call[t].cam_method, call[t].file_path[1])

\* np.array(image).shape[:2] of a PIL image of size (width, height), line 333
NpShape(size) == <<size[2], size[1]>>

\* cv2.resize with the target given as (height, width)
Cv2ResizeSwapped(shape, dsize) == <<dsize[1], dsize[2]>>

\* cv2.resize(src, dsize): dsize is (width, height), the result has
\* dsize[1] rows and dsize[0] columns whatever the shape of src, line 393
Cv2Resize(shape, dsize) == <<dsize[2], dsize[1]>>

\* numpy broadcasting of a + b, line 414: each dimension equal, or 1 in one
\* of the two; None stands for the ValueError of shapes that do not fit
BroadcastShape(a, b) ==
    IF \A i \in DOMAIN a : a[i] = b[i] \/ a[i] = 1 \/ b[i] = 1
    THEN Some([i \in DOMAIN a |-> MaxOf({a[i], b[i]})])
    ELSE None

\* Image.fromarray(array).size is (columns, rows), lines 425 and 429
PilSize(shape) == <<shape[2], shape[1]>>

\* the rendering with the two Image.save calls left out
RenderWithoutSave(t) ==
    /\ call[t].pc = "heatmap"
    /\ call' = [call EXCEPT ![t].pc = "saved_images",
                            ![t].steps = @ \o <<"render", "persist">>]
    /\ UNCHANGED <<manager, app, recorders, cam, started, last, uploads, result_dir, redis_client,
                   redis_store, optimal_thresholds, net, hooks, model_forward, cam_total>>

\* lines 391-432: resize the map to the original size, colour it, blend it
\* with the original image, save both images in RESULT_DIR
RenderAndSave(t) ==
    /\ call[t].pc = "heatmap"
    /\ LET heatmap_resized == Cv2Resize(call[t].heatmap[1], call[t].original_size[1])
           original_np == NpShape(call[t].original_size[1])
           superimposed_img == BroadcastShape(heatmap_resized, original_np)
       IN  IF superimposed_img = None
           THEN /\ call' = [call EXCEPT ![t].pc = "failed", ![t].error = "ValueError"]
                /\ UNCHANGED result_dir
           ELSE /\ result_dir' = result_dir \cup
                       { [name |-> HeatmapFile(t), size |-> PilSize(heatmap_resized)],
                         [name |-> SuperimposedFile(t),
                          size |-> PilSize(superimposed_img[1])] }
                /\ call' = [call EXCEPT ![t].pc = "saved_images",
                                        ![t].steps = @ \o <<"render", "persist">>]
    /\ UNCHANGED <<manager, app, recorders, cam, started, last, uploads, redis_client, redis_store,
                   optimal_thresholds, net, hooks, model_forward, cam_total>>

\* the returned dict with the default method in the place of the requested one
ResultsDefaultMethod(t) ==
    [predictions |->
        [l \in {DISEASE_LABELS[c] : c \in Classes} |->
            LET c == CHOOSE d \in Classes : DISEASE_LABELS[d] = l
            IN  [positive |-> call[t].pred_labels[c] = 1,
                 probability |-> call[t].pred_probs[c]]],
     original_size |-> PyTuple(call[t].original_size[1]),
     model_input_size |-> PyTuple(<<InputSide, InputSide>>),
     cam_method |-> "gradcam",
     heatmap_path |-> HeatmapFile(t),
     superimposed_path |-> SuperimposedFile(t)]

\* lines 438-453: the returned dict
Results(t) ==
    [predictions |->
        [l \in {DISEASE_LABELS[c] : c \in Classes} |->
            LET c == CHOOSE d \in Classes : DISEASE_LABELS[d] = l
            IN  [positive |-> call[t].pred_labels[c] = 1,
                 probability |-> call[t].pred_probs[c]]],
     original_size |-> PyTuple(call[t].original_size[1]),
     model_input_size |-> PyTuple(<<InputSide, InputSide>>),
     cam_method |-> call[t].cam_method,
     heatmap_path |-> HeatmapFile(t),
     superimposed_path |-> SuperimposedFile(t)]

\* a clean-up that takes the two saved images with the upload
RemoveUploadAndArtifacts(t) ==
    /\ call[t].pc = "saved_images"
    /\ uploads' = uploads \ {call[t].file_path[1]}
    /\ result_dir' = {f \in result_dir :
                          f.name \notin {HeatmapFile(t), SuperimposedFile(t)}}
    /\ call' = [call EXCEPT ![t].pc = "assembled"]
    /\ UNCHANGED <<manager, app, recorders, cam, started, last, redis_client, redis_store,
                   optimal_thresholds, net, hooks, model_forward, cam_total>>

\* lines 434-436: remove the upload
RemoveUpload(t) ==
    /\ call[t].pc = "saved_images"
    /\ uploads' = uploads \ {call[t].file_path[1]}
    /\ call' = [call EXCEPT ![t].pc = "assembled"]
    /\ UNCHANGED <<manager, app, recorders, cam, started, last, result_dir, redis_client, redis_store,
                   optimal_thresholds, net, hooks, model_forward, cam_total>>

\* StoreAndReturn without the try/except of lines 465-470 and of set_cache:
\* an exception of the client reaches the caller
StoreAndReturnPropagates(t) ==
    /\ call[t].pc = "assembled"
    /\ \E raises \in BOOLEAN :
        IF raises /\ redis_client # "none"
        THEN /\ call' = [call EXCEPT ![t].pc = "failed",
                                     ![t].cache_writes = @ + 1,
                                     ![t].steps = @ \o <<"cache_store">>,
                                     ![t].error = "RedisError"]
             /\ UNCHANGED redis_store
        ELSE /\ call' = [call EXCEPT ![t].pc = "done",
                                     ![t].cache_writes = @ + 1,
                                     ![t].steps = @ \o <<"cache_store">>,
                                     ![t].cached = (redis_client # "none"),
                                     ![t].results = Some(Results(t))]
             /\ IF redis_client = "none"
                THEN UNCHANGED redis_store
                ELSE redis_store' = [redis_store EXCEPT
                         ![call[t].cache_key[1]] = Some(serialize_data(Results(t)))]
    /\ UNCHANGED <<manager, app, recorders, cam, started, last, uploads, result_dir, redis_client,
                   optimal_thresholds, net, hooks, model_forward, cam_total>>

\* lines 464-472 with RedisManager.set_cache, lines 161-197: store the result
\* when there is a client and setex does not raise; return the result
StoreAndReturn(t) ==
    /\ call[t].pc = "assembled"
    /\ \E raises \in BOOLEAN :
        /\ call' = [call EXCEPT ![t].pc = "done",
                                ![t].cache_writes = @ + 1,
                                ![t].steps = @ \o <<"cache_store">>,
                                ![t].cached = ~(redis_client = "none" \/ raises),
                                ![t].results = Some(Results(t))]
        /\ IF redis_client = "none" \/ raises
           THEN UNCHANGED redis_store
           ELSE redis_store' = [redis_store EXCEPT
                    ![call[t].cache_key[1]] = Some(serialize_data(Results(t)))]
    /\ UNCHANGED <<manager, app, recorders, cam, started, last, uploads, result_dir, redis_client,
                   optimal_thresholds, net, hooks, model_forward, cam_total>>

\* setex(key, timeout, data): Redis drops the entry when its timeout is over
Expire(key) ==
    /\ redis_store[key] # None
    /\ redis_store' = [redis_store EXCEPT ![key] = None]
    /\ UNCHANGED <<manager, app, recorders, cam, call, started, last, uploads, result_dir, redis_client,
                   optimal_thresholds, net, hooks, model_forward, cam_total>>

\* bytes under a key that are neither JSON nor a pickle
GarbageBytes == [encoding |-> "garbage", text |-> <<>>]

\* the entry of a key is overwritten, outside the service, by bytes that
\* _deserialize_data cannot decode
Corrupt(key) ==
    /\ redis_store[key] # None
    /\ redis_store[key] # Some(GarbageBytes)
    /\ redis_store' = [redis_store EXCEPT ![key] = Some(GarbageBytes)]
    /\ UNCHANGED <<manager, app, recorders, cam, call, started, last, uploads, result_dir, redis_client,
                   optimal_thresholds, net, hooks, model_forward, cam_total>>

----------------------------------------------------------------------------
(* The pipeline, one invocation at a time on one request thread *)

\* what the network answers in the pipeline: sigmoid outputs per class
NetOutputs ==
    { [c \in Classes |-> Half],
      [c \in Classes |-> IF c = 1 THEN Half - 1 ELSE Half + 1] }

\* threshold artifacts the service starts with in the pipeline
StartupArtifacts ==
    { [kind |-> "list", values |-> [c \in Classes |-> Half + c - 1], key |-> ""] }

\* the requests of the pipeline: every method with a well-named upload, one
\* method with a badly named one (predict does not read it before it raises)
Requests ==
    [cam_method : Methods, file : {f \in Files : f.filename \in GoodNames}]
        \cup [cam_method : {"gradcam"}, file : {f \in Files : f.filename \in BadNames}]

Init ==
    /\ call = [t \in Threads |-> IdleCall]
    /\ started = 0
    /\ last = NoLast
    /\ uploads = {}
    /\ result_dir = {}
    /\ redis_client \in {"connected", "none"}
    /\ redis_store = [k \in CacheKeys |-> None]
    /\ \E a \in StartupArtifacts :
        /\ app = ServingApp(a)
        /\ optimal_thresholds = load_optimal_thresholds(a)
    /\ recorders = [obj \in CamObjects |-> NoRecorder]
    /\ net \in {n \in [Images -> NetOutputs] : n["imgA"][1] > n["imgB"][1]}
    /\ hooks = 0
    /\ model_forward = 0
    /\ cam_total = 0
    /\ cam = IdleCam
    /\ manager = NewManager

Next ==
    \/ \E request \in Requests :
           Receive(1, request.file, request.cam_method, Some("u1"))
    \/ CacheLookup(1)
    \/ Decode(1)
    \/ Classify(1)
    \/ GenerateHeatmap(1)
    \/ RenderAndSave(1)
    \/ RemoveUpload(1)
    \/ StoreAndReturn(1)
    \/ \E key \in CacheKeys : Expire(key)
    \/ \E key \in CacheKeys : Corrupt(key)

Spec == Init /\ [][Next]_vars

----------------------------------------------------------------------------
(* The thresholding as a function of the network's output and the artifact *)

\* Predictor.predict_single_image, lines 236-246: open, transform, forward
\* pass, sigmoid, thresholds; returns (predictions, probabilities)
PredictSingleImage(t, content) ==
    /\ app.pc = "serving"
    /\ call[t].pc = "idle"
    /\ Decodable(content)
    /\ model_forward' = model_forward + 1
    /\ recorders' = ForwardPass(recorders, 0)
    /\ LET probabilities == net[content]
       IN  IF ThresholdRaises(optimal_thresholds)
           THEN call' = [call EXCEPT ![t].pc = "failed",
                                     ![t].file.content = content,
                                     ![t].preprocessed = TRUE,
                                     ![t].forward_passes = @ + 1,
                                     ![t].error = "IndexError"]
           ELSE call' = [call EXCEPT ![t].pc = "predicted",
                                     ![t].file.content = content,
                                     ![t].preprocessed = TRUE,
                                     ![t].forward_passes = @ + 1,
                                     ![t].pred_probs = probabilities,
                                     ![t].pred_labels =
                                         ApplyThresholds(probabilities, optimal_thresholds)]
    /\ UNCHANGED <<manager, app, cam, started, last, uploads, result_dir, redis_client, redis_store,
                   optimal_thresholds, net, hooks, cam_total>>

\* sigmoid outputs just under, at and just over 0.5
ProbValues == {Half - 1, Half, Half + 1}

ThresholdValues == {Half, Half + 1}

\* threshold vectors of N - 1, N and N + 1 entries
ThresholdVectors ==
    UNION {[1..n -> ThresholdValues] : n \in (NUM_CLASSES - 1)..(NUM_CLASSES + 1)}

\* what optimal_thresholds.pth may hold when the Predictor is constructed
ClsArtifacts ==
    {AbsentArtifact, [kind |-> "tensor", values |-> <<>>, key |-> ""]}
        \cup [kind : {"list", "ndarray"}, values : ThresholdVectors, key : {""}]
        \cup [kind : {"dict"},
              values : ThresholdVectors,
              key : {"Optimal_Threshold", "thresholds"}]

\* predict of thread 1 has saved, missed the cache and decoded image imgA
DecodedCall ==
    [IdleCall EXCEPT !.pc = "decoded",
                     !.uuid = 1,
                     !.file = [content |-> "imgA", filename |-> <<"x",".","p","n","g">>],
                     !.cam_method = "gradcam",
                     !.file_path = Some(TempName(1, <<"x",".","p","n","g">>)),
                     !.cache_key = Some(CacheKey("imgA", "gradcam")),
                     !.original_size = Some(ImageSize("imgA")),
                     !.cache_reads = 1]

InitCls ==
    /\ call = [t \in Threads |-> IF t = 1 THEN DecodedCall ELSE IdleCall]
    /\ started = 1
    /\ last = NoLast
    /\ uploads = {TempName(1, <<"x",".","p","n","g">>)}
    /\ result_dir = {}
    /\ redis_client = "none"
    /\ redis_store = [k \in CacheKeys |-> None]
    /\ \E a \in ClsArtifacts :
        /\ app = ServingApp(a)
        /\ optimal_thresholds = load_optimal_thresholds(a)
    /\ recorders = [obj \in CamObjects |-> NoRecorder]
    /\ net \in {n \in [Images -> [Classes -> ProbValues]] :
                    n["imgB"] = [c \in Classes |-> Half]}
    /\ hooks = 0
    /\ model_forward = 0
    /\ cam_total = 0
    /\ cam = IdleCam
    /\ manager = NewManager

NextCls ==
    \/ Classify(1)
    \/ GenerateHeatmap(1)
    \/ PredictSingleImage(2, "imgA")

SpecCls == InitCls /\ [][NextCls]_vars

----------------------------------------------------------------------------
(* The CAM algorithms as functions of what the hooks capture *)

\* self.activations after the forward pass of line 54
CapturedActivations(c) == IF c.wired THEN <<c.activations>> ELSE <<>>

\* self.gradients when the backward pass runs whatever targets is
CapturedGradientsAlways(c) == IF c.wired THEN <<c.gradients>> ELSE <<>>

\* self.gradients after lines 62-65 and 92-95: backward runs only with targets
CapturedGradients(c) ==
    IF c.wired /\ c.targets # None THEN <<c.gradients>> ELSE <<>>

\* backward passes of a gradient-based __call__
BackwardPasses(c) == IF c.targets # None THEN 1 ELSE 0

\* activations[0] or gradients[0] of an empty list, lines 67-68 and 100-101
RaiseIndexError ==
    cam' = [cam EXCEPT !.pc = "failed",
                       !.passes = @ + 1,
                       !.backward = @ + BackwardPasses(cam),
                       !.error = "IndexError"]

\* GradCAM.__call__, lines 59-88
GradCamCall ==
    /\ cam.pc = "constructed"
    /\ cam.method = "gradcam"
    /\ IF CapturedActivations(cam) = <<>> \/ CapturedGradients(cam) = <<>>
       THEN RaiseIndexError
       ELSE LET r == GradCamMap(CapturedActivations(cam)[1], CapturedGradients(cam)[1])
            IN  cam' = [cam EXCEPT !.pc = "done",
                                   !.passes = @ + 1,
                                   !.backward = @ + 1,
                                   !.flat = r.flat,
                                   !.out = r.map]
    /\ model_forward' = model_forward + 1
    /\ UNCHANGED <<manager, app, recorders, call, started, last, uploads, result_dir, redis_client, redis_store,
                   optimal_thresholds, net, hooks, cam_total>>

\* GradCAMPlusPlus.__call__, lines 92-123
GradCamPlusPlusCall ==
    /\ cam.pc = "constructed"
    /\ cam.method = "gradcam++"
    /\ IF CapturedActivations(cam) = <<>> \/ CapturedGradients(cam) = <<>>
       THEN RaiseIndexError
       ELSE LET r == GradCamPlusPlusMap(CapturedActivations(cam)[1],
                                       CapturedGradients(cam)[1])
            IN  cam' = [cam EXCEPT !.pc = "done",
                                   !.passes = @ + 1,
                                   !.backward = @ + 1,
                                   !.flat = r.flat,
                                   !.out = r.map]
    /\ model_forward' = model_forward + 1
    /\ UNCHANGED <<manager, app, recorders, call, started, last, uploads, result_dir, redis_client, redis_store,
                   optimal_thresholds, net, hooks, cam_total>>

\* ScoreCAM.__call__, lines 128-147: the forward pass that captures the
\* activations, the importances, the top k channels, the zero buffer
ScoreCamCapture ==
    /\ cam.pc = "constructed"
    /\ cam.method = "scorecam"
    /\ IF CapturedActivations(cam) = <<>>
       THEN cam' = [cam EXCEPT !.pc = "failed", !.passes = @ + 1,
                               !.error = "IndexError"]
       ELSE LET k == TopKCount(Len(cam.activations))
                order == TopKIndices(ChannelImportance(cam.activations), k)
            IN  cam' = [cam EXCEPT !.pc = "scoring",
                                   !.passes = @ + 1,
                                   !.order = order,
                                   !.pos = 1,
                                   !.scale = MaskScale(cam.activations, order),
                                   !.acc = [j \in InputPixels |-> 0]]
    /\ model_forward' = model_forward + 1
    /\ UNCHANGED <<manager, app, recorders, call, started, last, uploads, result_dir, redis_client, redis_store,
                   optimal_thresholds, net, hooks, cam_total>>

\* the target class's score of a masked input: -1 or 1
Scores == {-1, 1}

\* lines 150-177, one round of the loop: mask the input with one channel,
\* run the model, add the weighted mask to the buffer
ScoreCamMaskedPass ==
    /\ cam.pc = "scoring"
    /\ cam.pos <= Len(cam.order)
    /\ \E score \in Scores :
        cam' = [cam EXCEPT !.passes = @ + 1,
                           !.pos = @ + 1,
                           !.acc = Accumulate(cam.acc, score,
                                              cam.activations[cam.order[cam.pos]],
                                              cam.scale)]
    /\ model_forward' = model_forward + 1
    /\ UNCHANGED <<manager, app, recorders, call, started, last, uploads, result_dir, redis_client, redis_store,
                   optimal_thresholds, net, hooks, cam_total>>

\* lines 179-186: after the loop, post-process the buffer and return it
ScoreCamFinish ==
    /\ cam.pc = "scoring"
    /\ cam.pos > Len(cam.order)
    /\ LET r == Postprocess(cam.acc, <<cam.scale * LayerPixels, 0>>)
       IN  cam' = [cam EXCEPT !.pc = "done", !.flat = r.flat, !.out = r.map]
    /\ UNCHANGED <<manager, app, recorders, call, started, last, uploads, result_dir, redis_client, redis_store,
                   optimal_thresholds, net, hooks, model_forward, cam_total>>

\* rows of a layer: all zero, flat, a peak at the first position, and a
\* negative first position under positive others
PatternRows(u) ==
    { [p \in Pixels |-> 0],
      [p \in Pixels |-> u],
      [p \in Pixels |-> IF p = 1 THEN u ELSE 0],
      [p \in Pixels |-> IF p = 1 THEN -u ELSE u] }

\* gradient rows: all zero, all one, one positive position among negative ones
GradRows ==
    { [p \in Pixels |-> 0],
      [p \in Pixels |-> 1],
      [p \in Pixels |-> IF p = 1 THEN 1 ELSE -1] }

ChannelCounts == (1..FewChannels) \cup {TopK, MaxChannels}

\* the tensors of n channels over the rows
Tensors(n, rows) ==
    IF n <= FewChannels THEN [1..n -> rows] ELSE {[c \in 1..n |-> r] : r \in rows}

\* a CAM object that generate_heatmap has constructed, with the tensors its
\* hooks are going to capture
Constructed(method, activations, gradients) ==
    [IdleCam EXCEPT !.pc = "constructed", !.method = method,
                    !.activations = activations, !.gradients = gradients]

GradCamInputs ==
    UNION {{Constructed("gradcam", a, g) :
               a \in Tensors(n, PatternRows(2)), g \in Tensors(n, GradRows)} :
           n \in ChannelCounts}

\* one channel, every row of activations in -2..2 and of gradients in -1..1
GradCamPlusPlusInputs ==
    {Constructed("gradcam++", <<a>>, <<g>>) :
        a \in [Pixels -> {-2, 0, 1, 2}], g \in [Pixels -> {-1, 0, 1}]}

\* calls without a target class, and objects whose layer captures nothing:
\* every method on one channel of every pattern
CaptureFailureInputs ==
    {[Constructed(method, <<a>>, IF method = "scorecam" THEN <<>> ELSE <<g>>)
          EXCEPT !.targets = w.targets, !.wired = w.wired] :
        method \in CamClasses,
        a \in PatternRows(2 * Upscale),
        g \in GradRows,
        w \in {[targets |-> None, wired |-> TRUE],
               [targets |-> None, wired |-> FALSE],
               [targets |-> Some(1), wired |-> FALSE]}}

\* ScoreCAM runs under no_grad: no gradient is captured
ScoreCamInputs ==
    UNION {{Constructed("scorecam", a, <<>>) :
               a \in Tensors(n, PatternRows(2 * Upscale))} :
           n \in ChannelCounts}

InitCAM ==
    /\ call = [t \in Threads |-> IdleCall]
    /\ started = 0
    /\ last = NoLast
    /\ uploads = {}
    /\ result_dir = {}
    /\ redis_client = "none"
    /\ redis_store = [k \in CacheKeys |-> None]
    /\ optimal_thresholds = DefaultThresholds
    /\ app = ServingApp(AbsentArtifact)
    /\ recorders = [obj \in CamObjects |-> NoRecorder]
    /\ net = [i \in Images |-> [c \in Classes |-> Half]]
    /\ hooks = 1
    /\ model_forward = 0
    /\ cam_total = 0
    /\ cam \in GradCamInputs \cup GradCamPlusPlusInputs \cup ScoreCamInputs
                 \cup CaptureFailureInputs
    /\ manager = NewManager

NextCAM ==
    \/ GradCamCall
    \/ GradCamPlusPlusCall
    \/ ScoreCamCapture
    \/ ScoreCamMaskedPass
    \/ ScoreCamFinish

SpecCAM == InitCAM /\ [][NextCAM]_vars

----------------------------------------------------------------------------
(* The rendering as a function of the map's shape and the image's size *)

\* shapes of a saliency map: one element, one row, the layer's, the input's
MapShapes == {<<1, 1>>, <<1, 2>>, LayerSize, <<InputSide, InputSide>>}

\* (width, height) of the uploaded image
OriginalSizes == {<<1, 1>>, <<3, 5>>, <<640, 480>>, <<1024, 768>>, <<InputSide, InputSide>>}

\* predict of thread 1 has computed a map of the shape for an image of the size
HeatmapCall(cam_method, shape, size) ==
    [DecodedCall EXCEPT !.pc = "heatmap",
                        !.cam_method = cam_method,
                        !.cache_key = Some(CacheKey("imgA", cam_method)),
                        !.original_size = Some(size),
                        !.pred_probs = [c \in Classes |-> Half],
                        !.pred_labels = [c \in Classes |-> 0],
                        !.class_idx = 1,
                        !.cam_target = 1,
                        !.heatmap = Some(shape),
                        !.preprocessed = TRUE,
                        !.forward_passes = 1 + CamForwardPasses(cam_method, LayerChannels),
                        !.steps = <<"preprocess", "classify", "capture", "compute">>,
                        !.cam_calls = 1]

InitRender ==
    /\ \E cam_method \in CamClasses, shape \in MapShapes, size \in OriginalSizes :
           call = [t \in Threads |->
                      IF t = 1 THEN HeatmapCall(cam_method, shape, size) ELSE IdleCall]
    /\ started = 1
    /\ last = NoLast
    /\ uploads = {TempName(1, <<"x",".","p","n","g">>)}
    /\ result_dir = {}
    /\ redis_client \in {"connected", "none"}
    /\ redis_store = [k \in CacheKeys |-> None]
    /\ optimal_thresholds = DefaultThresholds
    /\ app = ServingApp(AbsentArtifact)
    /\ recorders = [obj \in CamObjects |-> NoRecorder]
    /\ net = [i \in Images |-> [c \in Classes |-> Half]]
    /\ hooks = 1
    /\ model_forward = 1
    /\ cam_total = 1
    /\ cam = IdleCam
    /\ manager = NewManager

NextRender ==
    \/ RenderAndSave(1)
    \/ RemoveUpload(1)
    \/ StoreAndReturn(1)

SpecRender == InitRender /\ [][NextRender]_vars

----------------------------------------------------------------------------
(* Concurrent requests: the web server runs predict on one thread per       *)
(* request, all on the one service object and its one model; nothing in     *)
(* predict or generate_heatmap takes a lock.  A thread may be preempted     *)
(* between any two statements, so the CAM computation is split at its       *)
(* passes through the model.                                                *)

\* well-named decodable uploads with the three supported methods
ConcRequests ==
    [cam_method : CamClasses,
     file : {f \in Files : f.filename = <<"x",".","p","n","g">> /\ Decodable(f.content)}]

InitConc ==
    /\ call = [t \in Threads |-> IdleCall]
    /\ started = 0
    /\ last = NoLast
    /\ uploads = {}
    /\ result_dir = {}
    /\ redis_client \in {"connected", "none"}
    /\ redis_store = [k \in CacheKeys |-> None]
    /\ \E a \in StartupArtifacts :
        /\ app = ServingApp(a)
        /\ optimal_thresholds = load_optimal_thresholds(a)
    /\ recorders = [obj \in CamObjects |-> NoRecorder]
    /\ net \in {n \in [Images -> NetOutputs] : n["imgA"][1] > n["imgB"][1]}
    /\ hooks = 0
    /\ model_forward = 0
    /\ cam_total = 0
    /\ cam = IdleCam
    /\ manager = NewManager

NextConc ==
    \E t \in Threads :
        \/ \E request \in ConcRequests :
               Receive(t, request.file, request.cam_method, Some("u1"))
        \/ CacheLookup(t)
        \/ Decode(t)
        \/ Classify(t)
        \/ CamConstruct(t)
        \/ CamReset(t)
        \/ CamForward(t)
        \/ CamBackward(t)
        \/ CamCompute(t)
        \/ RenderAndSave(t)
        \/ RemoveUpload(t)
        \/ StoreAndReturn(t)

SpecConc == InitConc /\ [][NextConc]_vars

----------------------------------------------------------------------------
(* Start-up of the application.  app.py imports services.chest_xray_service, *)
(* whose module body constructs a ChestXrayService, and then constructs its  *)
(* own; each construction loads best_model.pth and, when that has           *)
(* succeeded, a Predictor that loads optimal_thresholds.pth.                 *)

\* the process before the import
StartingApp(checkpoint, artifact) ==
    [artifact |-> artifact,
     pc |-> "importing",
     error |-> "none",
     checkpoint |-> checkpoint,
     service |-> "none",
     chest_xray_service |-> "none"]

\* the process after an exception nobody caught, or after sys.exit(1)
Terminated(error) ==
    [app EXCEPT !.pc = "terminated", !.service = "none",
                !.chest_xray_service = "none", !.error = error]

\* `service = ChestXrayService()` in the body of chest_xray_service.py; the
\* import in app.py catches ImportError only
ImportService ==
    /\ app.pc = "importing"
    /\ IF load_model(app.checkpoint) = "RuntimeError"
       THEN /\ app' = Terminated("RuntimeError")
            /\ UNCHANGED optimal_thresholds
       ELSE /\ app' = [app EXCEPT !.pc = "imported", !.service = "constructed"]
            /\ optimal_thresholds' = load_optimal_thresholds(app.artifact)
    /\ UNCHANGED <<manager, recorders, cam, call, started, last, uploads, result_dir, redis_client,
                   redis_store, net, hooks, model_forward, cam_total>>

\* app.py, lines 115-128
InitServices ==
    /\ app.pc = "imported"
    /\ IF load_model(app.checkpoint) = "RuntimeError"
       THEN /\ app' = Terminated("SystemExit")
            /\ UNCHANGED optimal_thresholds
       ELSE /\ app' = [app EXCEPT !.pc = "serving",
                                  !.chest_xray_service = "constructed"]
            /\ optimal_thresholds' = load_optimal_thresholds(app.artifact)
    /\ UNCHANGED <<manager, recorders, cam, call, started, last, uploads, result_dir, redis_client,
                   redis_store, net, hooks, model_forward, cam_total>>

\* the checkpoint file is replaced or removed between the two constructions
ReplaceCheckpoint(checkpoint) ==
    /\ app.pc = "imported"
    /\ app.checkpoint = "valid"
    /\ checkpoint # "valid"
    /\ app' = [app EXCEPT !.checkpoint = checkpoint]
    /\ UNCHANGED <<manager, recorders, cam, call, started, last, uploads, result_dir, redis_client,
                   redis_store, optimal_thresholds, net, hooks, model_forward, cam_total>>

InitStart ==
    /\ app \in {StartingApp(c, a) : c \in Checkpoints, a \in ClsArtifacts}
    /\ optimal_thresholds = <<>>
    /\ call = [t \in Threads |-> IdleCall]
    /\ started = 0
    /\ last = NoLast
    /\ uploads = {}
    /\ result_dir = {}
    /\ redis_client = "none"
    /\ redis_store = [k \in CacheKeys |-> None]
    /\ recorders = [obj \in CamObjects |-> NoRecorder]
    /\ net \in {n \in [Images -> [Classes -> ProbValues]] :
                    n["imgB"] = [c \in Classes |-> Half]}
    /\ hooks = 0
    /\ model_forward = 0
    /\ cam_total = 0
    /\ cam = IdleCam
    /\ manager = NewManager

NextStart ==
    \/ ImportService
    \/ InitServices
    \/ \E checkpoint \in Checkpoints : ReplaceCheckpoint(checkpoint)
    \/ Receive(1, [content |-> "imgA", filename |-> <<"x",".","p","n","g">>], "gradcam",
               Some("u1"))
    \/ CacheLookup(1)
    \/ Decode(1)
    \/ Classify(1)
    \/ PredictSingleImage(2, "imgA")

SpecStart == InitStart /\ [][NextStart]_vars

----------------------------------------------------------------------------
(* The cache between requests of several users: predict takes the user's id  *)
(* and builds the key from the hash of the bytes and the method.             *)

\* request.current_user.id of the route, as a string
Users == {"u1", "u2"}

\* well-named decodable uploads with two of the supported methods
CacheRequests ==
    [cam_method : {"gradcam", "scorecam"},
     file : {f \in Files : f.filename = <<"x",".","p","n","g">> /\ Decodable(f.content)},
     user_id : Users]

InitCache ==
    /\ call = [t \in Threads |-> IdleCall]
    /\ started = 0
    /\ last = NoLast
    /\ uploads = {}
    /\ result_dir = {}
    /\ redis_client = "connected"
    /\ redis_store = [k \in CacheKeys |-> None]
    /\ \E a \in StartupArtifacts :
        /\ app = ServingApp(a)
        /\ optimal_thresholds = load_optimal_thresholds(a)
    /\ recorders = [obj \in CamObjects |-> NoRecorder]
    /\ net \in {n \in [Images -> NetOutputs] : n["imgA"][1] > n["imgB"][1]}
    /\ hooks = 0
    /\ model_forward = 0
    /\ cam_total = 0
    /\ cam = IdleCam
    /\ manager = NewManager

NextCache ==
    \/ \E request \in CacheRequests :
           Receive(1, request.file, request.cam_method, Some(request.user_id))
    \/ CacheLookup(1)
    \/ Decode(1)
    \/ Classify(1)
    \/ GenerateHeatmap(1)
    \/ RenderAndSave(1)
    \/ RemoveUpload(1)
    \/ StoreAndReturn(1)
    \/ \E key \in CacheKeys : Expire(key)

SpecCache == InitCache /\ [][NextCache]_vars

----------------------------------------------------------------------------
(* The route /api/chest_xray of app.py: its own checks of the request, the   *)
(* call of predict, and the response for the value or exception of predict.  *)

\* request.form.get('cam_method', 'gradcam').lower()
RouteMethod(cam_method) == IF cam_method = "GradCAM" THEN "gradcam" ELSE cam_method

\* jsonify({'error': ...}), 400
BadRequest(error) ==
    [error |-> error, status |-> 400, success |-> FALSE, detail |-> ""]

\* the body and status of lines 564-568
Success == [error |-> "", status |-> 200, success |-> TRUE, detail |-> ""]

\* the body and status of the except branch, lines 569-576: detail is str(e)
PredictionFailed(e) ==
    [error |-> "prediction failed", status |-> 500, success |-> FALSE, detail |-> e]

\* lines 541-551: the route answers itself when the request has no file part
\* or names no supported method, and calls predict otherwise
ChestXrayRoute(t, request) ==
    /\ call[t].pc = "idle" \/ call[t].response # None
    /\ IF ~request.has_file \/ RouteMethod(request.cam_method) \notin CamClasses
       THEN /\ app.pc = "serving"
            /\ call' = [call EXCEPT ![t] =
                   [IdleCall EXCEPT
                       !.pc = "rejected",
                       !.response = Some(BadRequest(IF request.has_file
                                                    THEN "invalid CAM method"
                                                    ELSE "no file uploaded"))]]
            /\ UNCHANGED <<manager, started, last, uploads>>
            /\ UNCHANGED <<manager, app, recorders, cam, result_dir, redis_client, redis_store,
                           optimal_thresholds, net, hooks, model_forward, cam_total>>
       ELSE Receive(t, request.file, RouteMethod(request.cam_method),
                    Some(request.user_id))

\* lines 551-576: the response once predict has returned or raised
Respond(t) ==
    /\ Finished(t)
    /\ call[t].response = None
    /\ call' = [call EXCEPT ![t].response =
           Some(IF call[t].pc = "done" THEN Success
                                       ELSE PredictionFailed(call[t].error))]
    /\ UNCHANGED <<manager, app, recorders, cam, started, last, uploads, result_dir, redis_client,
                   redis_store, optimal_thresholds, net, hooks, model_forward, cam_total>>

\* requests of the route: with and without a file part, the file well or
\* badly named, an image or bytes that are none
RouteRequests ==
    [cam_method : {"gradcam", "GradCAM", "foo"},
     file : {f \in Files : f.filename \in {<<"x",".","p","n","g">>, <<>>,
                                           <<"x",".","g","i","f">>}},
     user_id : {"u1"},
     has_file : BOOLEAN]

InitRoute ==
    /\ call = [t \in Threads |-> IdleCall]
    /\ started = 0
    /\ last = NoLast
    /\ uploads = {}
    /\ result_dir = {}
    /\ redis_client = "none"
    /\ redis_store = [k \in CacheKeys |-> None]
    /\ \E a \in StartupArtifacts :
        /\ app = ServingApp(a)
        /\ optimal_thresholds = load_optimal_thresholds(a)
    /\ recorders = [obj \in CamObjects |-> NoRecorder]
    /\ net \in {n \in [Images -> NetOutputs] : n["imgA"][1] > n["imgB"][1]}
    /\ hooks = 0
    /\ model_forward = 0
    /\ cam_total = 0
    /\ cam = IdleCam
    /\ manager = NewManager

NextRoute ==
    \E t \in Threads :
        \/ \E request \in RouteRequests : ChestXrayRoute(t, request)
        \/ CacheLookup(t)
        \/ Decode(t)
        \/ Classify(t)
        \/ GenerateHeatmap(t)
        \/ RenderAndSave(t)
        \/ RemoveUpload(t)
        \/ StoreAndReturn(t)
        \/ Respond(t)

SpecRoute == InitRoute /\ [][NextRoute]_vars

----------------------------------------------------------------------------
(* The cache and the result store under concurrent requests: the steps of    *)
(* predict of several request threads interleave, each CAM computation       *)
(* taken as one step.                                                        *)

\* ChestXrayService.get_image, lines 474-484: the path of the file of that
\* name in RESULT_DIR, FileNotFoundError (None) when there is none.  The
\* names predict returns hold no directory part for basename to strip.
get_image(image_path) ==
    IF \E f \in result_dir : f.name = image_path THEN Some(image_path) ELSE None

\* well-named uploads of one image with one of the supported methods
StoreRequests ==
    [cam_method : {"gradcam"},
     file : {f \in Files : f.filename = <<"x",".","p","n","g">> /\ f.content = "imgA"}]

InitStore ==
    /\ call = [t \in Threads |-> IdleCall]
    /\ started = 0
    /\ last = NoLast
    /\ uploads = {}
    /\ result_dir = {}
    /\ redis_client = "connected"
    /\ redis_store = [k \in CacheKeys |-> None]
    /\ \E a \in StartupArtifacts :
        /\ app = ServingApp(a)
        /\ optimal_thresholds = load_optimal_thresholds(a)
    /\ recorders = [obj \in CamObjects |-> NoRecorder]
    /\ net \in {n \in [Images -> NetOutputs] : n["imgA"][1] > n["imgB"][1]}
    /\ hooks = 0
    /\ model_forward = 0
    /\ cam_total = 0
    /\ cam = IdleCam
    /\ manager = NewManager

NextStore ==
    \/ \E t \in Threads :
        \/ \E request \in StoreRequests :
               Receive(t, request.file, request.cam_method, Some("u1"))
        \/ CacheLookup(t)
        \/ Decode(t)
        \/ Classify(t)
        \/ GenerateHeatmap(t)
        \/ RenderAndSave(t)
        \/ RemoveUpload(t)
        \/ StoreAndReturn(t)
    \/ \E key \in CacheKeys : Expire(key)

SpecStore == InitStore /\ [][NextStore]_vars

----------------------------------------------------------------------------
(* The ModelManager on its own: load_all_models and reload_model, called one *)
(* after the other, each loader finishing or raising.                        *)

InitModels ==
    /\ call = [t \in Threads |-> IdleCall]
    /\ started = 0
    /\ last = NoLast
    /\ uploads = {}
    /\ result_dir = {}
    /\ redis_client = "none"
    /\ redis_store = [k \in CacheKeys |-> None]
    /\ app = ServingApp(AbsentArtifact)
    /\ optimal_thresholds = load_optimal_thresholds(AbsentArtifact)
    /\ recorders = [obj \in CamObjects |-> NoRecorder]
    /\ net = [i \in Images |-> [c \in Classes |-> Half]]
    /\ hooks = 0
    /\ model_forward = 0
    /\ cam_total = 0
    /\ cam = IdleCam
    /\ manager = NewManager

NextModels ==
    \/ LoadAllModels
    \/ \E i \in DOMAIN ModelNames :
           \E ok \in LoaderOutcomes(ModelNames[i]) : LoadModelTask(i, ok)
    \/ GatherDone
    \/ \E model_name \in ConfiguredModels :
           \E ok \in LoaderOutcomes(model_name) : ReloadModel(model_name, ok)

SpecModels == InitModels /\ [][NextModels]_vars

----------------------------------------------------------------------------
(* Claims about the pipeline *)

\* artifacts an invocation wrote to RESULT_DIR
ArtifactsOf(t) == {a \in result_dir : a.name.filename.uuid = call[t].uuid}

\* the upload an invocation left in UPLOAD_FOLDER
UploadsOf(t) == {f \in uploads : f.uuid = call[t].uuid}

\* the step in which thread t looks the cache up
IsLookup(t) == call[t].pc = "saved" /\ call'[t].pc # "saved"

SameResult(r, q) ==
    /\ r.predictions = q.predictions
    /\ r.heatmap_path = q.heatmap_path
    /\ r.superimposed_path = q.superimposed_path
    /\ r.cam_method = q.cam_method
    /\ r.original_size.items = q.original_size.items
    /\ r.model_input_size.items = q.model_input_size.items

\* thread t has returned the second of two calls with the same bytes and method
SecondOfTwo(t) ==
    /\ call[t].pc = "done"
    /\ last.results # None
    /\ last.file.content = call[t].file.content
    /\ last.cam_method = call[t].cam_method
    /\ call[t].cam_method \in CamClasses

C3_Claimed ==
    \A t \in Threads : call[t].error = "UnsupportedCAMMethod" =>
        /\ call[t].forward_passes = 0
        /\ ~call[t].preprocessed

\* C4: a predict whose file name is empty or has no allowed extension fails at
\* once with the invalid-format error: no upload saved, no cache read or
\* write, no model call.
C4_BadNameFailsFast ==
    \A t \in Threads : call[t].pc # "idle" /\ call[t].file.filename \in BadNames =>
        /\ call[t].pc = "failed"
        /\ call[t].error = "InvalidFileFormat"
        /\ call[t].file_path = None
        /\ UploadsOf(t) = {}
        /\ call[t].cache_reads = 0
        /\ call[t].cache_writes = 0
        /\ call[t].forward_passes = 0
        /\ call[t].cam_calls = 0

C4_Witness ==
    \E t \in Threads :
        /\ call[t].pc = "failed"
        /\ call[t].file.filename = <<"x",".","p","n","g",".","e","x","e">>
        /\ started = MaxCalls
        /\ model_forward > 0

\* C5 as claimed: an empty or undecodable upload under an allowed name is
\* rejected at once with the invalid-input error, before the cache is read
\* and with nothing left in the upload directory.
C5_Claimed ==
    \A t \in Threads :
        call[t].pc # "idle" /\ call[t].file.filename \in GoodNames
            /\ ~Decodable(call[t].file.content) =>
        /\ call[t].pc = "failed"
        /\ call[t].error = "InvalidFileFormat"
        /\ call[t].cache_reads = 0
        /\ UploadsOf(t) = {}

----------------------------------------------------------------------------
(* Claims about the thresholding *)

\* the invocations that have thresholded the network's output
Thresholded(t) == call[t].pc \in {"classified", "predicted"}

\* C10: for every class that has a threshold, the flag the classifier produces
\* is positive exactly when the probability is strictly greater than the
\* threshold; a probability equal to its threshold yields negative.
C10_StrictThreshold ==
    \A t \in Threads : Thresholded(t) =>
        \A c \in Classes : c <= Len(optimal_thresholds) =>
            /\ call[t].pred_labels[c] = 1 <=> call[t].pred_probs[c] > optimal_thresholds[c]
            /\ call[t].pred_probs[c] = optimal_thresholds[c] => call[t].pred_labels[c] = 0
            /\ call[t].pred_probs = net[call[t].file.content]

\* both code paths have thresholded a vector that holds a probability equal to
\* its threshold, one just over and one just under
C10_Witness ==
    /\ \A t \in Threads : Thresholded(t)
    /\ Len(optimal_thresholds) = NUM_CLASSES
    /\ \E c \in Classes :
        /\ call[1].pred_probs[c] = optimal_thresholds[c]
        /\ call[1].pred_labels[c] = 0
    /\ \E c \in Classes :
        /\ call[1].pred_probs[c] = optimal_thresholds[c] + 1
        /\ call[1].pred_labels[c] = 1

----------------------------------------------------------------------------
(* Claims about the CAM algorithms *)

Returned == cam.pc = "done"

AllZero(tensor) == \A c \in DOMAIN tensor : \A p \in DOMAIN tensor[c] : tensor[c][p] = 0

\* C6: every element of the map a CAM algorithm returns lies in [0, 1], also
\* when the post-ReLU weighted sum is constant.
C6_Claimed ==
    Returned => \A p \in DOMAIN cam.out : InUnit(cam.out[p])

\* C7: when the post-ReLU weighted sum is flat, whatever its constant value,
\* the returned map is all zero.
C7_Claimed ==
    Returned /\ cam.flat => \A p \in DOMAIN cam.out : IsZero(cam.out[p])

\* C8: GradCAM returns an all-zero map whenever the captured gradient is all
\* zero, for any activation tensor.
C8_ZeroGradientZeroMap ==
    Returned /\ cam.method = "gradcam" /\ AllZero(cam.gradients) =>
        \A p \in DOMAIN cam.out : IsZero(cam.out[p])

\* GradCAM has returned for an all-zero gradient on two channels whose
\* activations differ from position to position
C8_Witness ==
    /\ Returned /\ cam.method = "gradcam"
    /\ AllZero(cam.gradients)
    /\ Len(cam.activations) = 2
    /\ \E c \in DOMAIN cam.activations, p, q \in Pixels :
           cam.activations[c][p] > cam.activations[c][q]
    /\ DOMAIN cam.out = Pixels

\* C9 as claimed: one ScoreCAM call on a layer of C channels runs the model
\* forward at most min(64, C) times in total.
C9_Claimed ==
    cam.method = "scorecam" => cam.passes <= Min(TopK, Len(cam.activations))

\* C9: one ScoreCAM call on a layer of C channels runs the model forward once
\* to capture the activations and once per kept channel: never more than
\* min(64, C) masked passes, 1 + min(64, C) passes in total when it returns.
C9_ForwardPasses ==
    cam.method = "scorecam" =>
        /\ cam.passes <= 1 + Min(TopK, Len(cam.activations))
        /\ cam.pc = "scoring" =>
               /\ cam.passes = cam.pos
               /\ cam.pos - 1 <= Min(TopK, Len(cam.activations))
        /\ Returned => cam.passes = 1 + Min(TopK, Len(cam.activations))

\* ScoreCAM has returned on a layer of more than 64 channels
C9_Witness ==
    /\ Returned /\ cam.method = "scorecam"
    /\ Len(cam.activations) > TopK
    /\ cam.passes = 1 + TopK

----------------------------------------------------------------------------
(* Claims about the target class of the explanation *)

\* C11: the class index predict passes to the CAM algorithm is an index of the
\* largest probability over all classes, whether or not that class or any
\* class exceeds its threshold; a heatmap is generated also when every class
\* is predicted negative.
C11_TargetIsArgmax ==
    \A t \in Threads : call[t].cam_calls > 0 =>
        /\ call[t].cam_target \in Classes
        /\ \A d \in Classes :
               net[call[t].file.content][d] <= net[call[t].file.content][call[t].cam_target]
        /\ call[t].heatmap # None

\* a heatmap was generated although every class was predicted negative, and
\* for a class that is not the first one
C11_Witness ==
    /\ call[1].cam_calls > 0
    /\ call[1].heatmap # None
    /\ \A c \in Classes : call[1].pred_labels[c] = 0
    /\ call[1].cam_target > 1

----------------------------------------------------------------------------
(* Claims about the threshold vector *)

\* C12: while the classifier serves, the threshold vector has exactly
\* NUM_CLASSES entries, as many as there are probabilities, so that every
\* class gets a decision from its own threshold and thresholding never fails,
\* for every artifact the loader accepts.
C12_Claimed ==
    /\ Len(optimal_thresholds) = NUM_CLASSES
    /\ \A t \in Threads : call[t].error # "IndexError"
    /\ \A t \in Threads : Thresholded(t) =>
           Len(call[t].pred_probs) = Len(optimal_thresholds)

----------------------------------------------------------------------------
(* Claims about the rendering *)

Rendered(t) == call[t].pc \in {"saved_images", "assembled", "done"} /\ ~call[t].hit

SizeOfArtifact(name) == {a.size : a \in {b \in result_dir : b.name = name}}

\* C13: for every shape of the saliency map and every size (W, H) of the
\* original image, rendering does not fail and the heatmap and the overlay
\* written both have width W and height H.
C13_RenderSize ==
    \A t \in Threads :
        /\ call[t].error # "ValueError"
        /\ Rendered(t) =>
               /\ SizeOfArtifact(HeatmapFile(t)) = {call[t].original_size[1]}
               /\ SizeOfArtifact(SuperimposedFile(t)) = {call[t].original_size[1]}

\* a map of one element was rendered for an image that is higher than wide
C13_Witness ==
    /\ Rendered(1)
    /\ call[1].heatmap = Some(<<1, 1>>)
    /\ call[1].original_size[1][1] < call[1].original_size[1][2]
    /\ SizeOfArtifact(HeatmapFile(1)) = {call[1].original_size[1]}

----------------------------------------------------------------------------
(* Claims about the returned result *)

Computed(t) == call[t].pc = "done" /\ ~call[t].hit

\* C14: the result of a successful predict that was not served from the cache
\* holds exactly NUM_CLASSES prediction entries, one per disease label, each
\* with a boolean positive and the class's probability; it echoes the requested
\* cam_method, reports the uploaded image's (W, H) as original_size and
\* (512, 512) as model_input_size.
C14_ResultFields ==
    \A t \in Threads : Computed(t) =>
        LET r == call[t].results[1]
            probabilities == net[call[t].file.content]
        IN  /\ DOMAIN r.predictions = {DISEASE_LABELS[c] : c \in Classes}
            /\ Cardinality(DOMAIN r.predictions) = NUM_CLASSES
            /\ \A c \in Classes :
                   /\ r.predictions[DISEASE_LABELS[c]].positive \in BOOLEAN
                   /\ r.predictions[DISEASE_LABELS[c]].positive
                          = (probabilities[c] > optimal_thresholds[c])
                   /\ r.predictions[DISEASE_LABELS[c]].probability = probabilities[c]
            /\ r.cam_method = call[t].cam_method
            /\ r.original_size = PyTuple(ImageSize(call[t].file.content))
            /\ r.model_input_size = PyTuple(<<512, 512>>)

\* a computed result for a 1024 x 768 image and a method other than the default
C14_Witness ==
    /\ Computed(1)
    /\ call[1].results[1].original_size = PyTuple(<<1024, 768>>)
    /\ call[1].results[1].cam_method = "scorecam"
    /\ Cardinality(DOMAIN call[1].results[1].predictions) = NUM_CLASSES

----------------------------------------------------------------------------
(* Claims about the cache's failures *)

\* the request of t has a well-formed name, an image and a supported method
ValidRequest(t) ==
    /\ call[t].pc # "idle"
    /\ call[t].file.filename \in GoodNames
    /\ call[t].file.content \in Images
    /\ call[t].cam_method \in CamClasses

\* C15: for a valid image and a supported method predict does not fail and
\* returns the complete and correct result whenever the cache is unavailable
\* or failing (no client, a lookup that raises or finds bytes it cannot decode,
\* a store that raises or is refused): no failure of the cache reaches the
\* caller or changes the result.
C15_CacheFailuresNonFatal ==
    \A t \in Threads :
        /\ call[t].error \in {"none", "InvalidFileFormat", "UnidentifiedImageError",
                              "UnsupportedCAMMethod"}
        /\ ValidRequest(t) => call[t].pc # "failed"
        /\ ValidRequest(t) /\ Computed(t) =>
               LET r == call[t].results[1]
                   probabilities == net[call[t].file.content]
                   filename == TempName(call[t].uuid, call[t].file.filename)
               IN  /\ \A c \in Classes :
                          r.predictions[DISEASE_LABELS[c]] =
                              [positive |-> probabilities[c] > optimal_thresholds[c],
                               probability |-> probabilities[c]]
                   /\ r.heatmap_path = ArtifactName("heatmap", call[t].cam_method, filename)
                   /\ r.superimposed_path =
                          ArtifactName("superimposed", call[t].cam_method, filename)
                   /\ r.cam_method = call[t].cam_method
                   /\ r.original_size.items = ImageSize(call[t].file.content)
                   /\ r.model_input_size.items = <<InputSide, InputSide>>

\* predict has returned a computed result although the client is connected
\* and holds an entry under the key: the lookup failed, and so did the store
C15_Witness ==
    /\ ValidRequest(1) /\ Computed(1)
    /\ redis_client = "connected"
    /\ ~call[1].cached
    /\ redis_store[call[1].cache_key[1]] # None

\* predict has returned a computed result without any client
C15_WitnessNoClient ==
    ValidRequest(1) /\ Computed(1) /\ redis_client = "none"

----------------------------------------------------------------------------
(* Claims about concurrent requests *)

\* C16: under any interleaving of concurrent predict invocations on the shared
\* model, the activation and the gradient tensor an invocation's CAM object
\* reads at index 0 of its lists are the ones of that invocation's own forward
\* and backward pass.
C16_Claimed ==
    \A t \in Threads : call[t].cam_read # None =>
        /\ call[t].cam_read[1].activation = call[t].uuid
        /\ UsesGradients(call[t].cam_method) =>
               call[t].cam_read[1].gradient = call[t].uuid

\* the invocations inside the CAM computation: the object is constructed and
\* its map is not yet computed
Computing(t) ==
    call[t].pc \in {"cam_constructed", "cam_reset", "cam_forward", "cam_backward"}

\* C17: inference and CAM computations are admitted through a bounded worker
\* pool: the invocations computing at the same moment are at most a fixed pool
\* size and further concurrent requests wait.  With one request on every
\* request thread, a pool that makes any of them wait holds fewer than
\* MaxThreads computations.
C17_Claimed ==
    Cardinality({t \in Threads : Computing(t)}) < MaxThreads

----------------------------------------------------------------------------
(* Claims about the start-up *)

\* C18: constructing ChestXrayService when best_model.pth is missing or
\* cannot be loaded always fails; the application terminates at startup, no
\* service object exists and no prediction is served.
C18_MissingCheckpointIsFatal ==
    [][/\ (app.checkpoint # "valid" /\ app'.pc # app.pc) =>
              /\ app'.pc = "terminated"
              /\ app'.error \in {"RuntimeError", "SystemExit"}
       /\ app'.pc = "terminated" =>
              /\ app'.checkpoint # "valid"
              /\ app'.service = "none"
              /\ app'.chest_xray_service = "none"
              /\ \A t \in Threads : call'[t].pc = "idle"]_vars

\* the construction of app.py has found the checkpoint missing and the
\* application has exited
C18_Witness ==
    /\ app.pc = "terminated"
    /\ app.checkpoint = "missing"
    /\ app.error = "SystemExit"

\* C19: if optimal_thresholds.pth is missing at startup the initialisation
\* fails and the service never begins serving predictions.
C19_Claimed ==
    app.artifact.kind = "absent" => app.pc # "serving"

\* C20: if the threshold artifact is absent, the classifier uses a vector of
\* exactly N thresholds all equal to 0.5, and every prediction thresholds
\* each class against 0.5.
C20_AbsentMeansHalf ==
    (app.artifact.kind = "absent" /\ app.pc \in {"imported", "serving"}) =>
        /\ Len(optimal_thresholds) = NUM_CLASSES
        /\ \A c \in Classes : optimal_thresholds[c] = Half
        /\ \A t \in Threads : Thresholded(t) =>
               \A c \in Classes :
                   call[t].pred_labels[c] = 1 <=> call[t].pred_probs[c] > Half

\* both code paths have thresholded against the default vector, one class at
\* exactly 0.5 and one just over it
C20_Witness ==
    /\ app.artifact.kind = "absent"
    /\ \A t \in Threads : Thresholded(t)
    /\ \E c \in Classes : call[1].pred_probs[c] = Half /\ call[1].pred_labels[c] = 0
    /\ \E c \in Classes : call[1].pred_probs[c] = Half + 1 /\ call[1].pred_labels[c] = 1

----------------------------------------------------------------------------
(* Claims about the capture of activations and gradients *)

\* C21: after any sequence of predict invocations that do not overlap, with
\* any mix of CAM methods and with failed invocations among them, the
\* activation and the gradient a CAM computation consumes were captured after
\* that computation's own reset: its lists start with the tensors of its own
\* passes and no tensor of an earlier invocation is read.
C21_NoStaleCapture ==
    \A t \in Threads : call[t].cam_read # None =>
        LET own == call[t].uuid
        IN  /\ recorders[own].registered
            /\ \A i \in 1..Len(recorders[own].activations) :
                   recorders[own].activations[i] = own
            /\ \A i \in 1..Len(recorders[own].gradients) :
                   recorders[own].gradients[i] = own
            /\ call[t].cam_read[1].activation = own
            /\ call[t].cam_read[1].gradient =
                   IF UsesGradients(call[t].cam_method) THEN own ELSE 0

\* the second invocation has computed its map while the object of the first
\* still holds that invocation's tensors and its hooks are still on the layer
C21_Witness ==
    /\ call[1].uuid = 2
    /\ call[1].cam_read # None
    /\ recorders[1].registered
    /\ recorders[1].activations # <<>>
    /\ recorders[1].activations[1] = 1
    /\ last.cam_method # call[1].cam_method

----------------------------------------------------------------------------
(* Claims about the files and the order of the steps of predict *)

\* C22: every predict invocation that saved a transient upload has deleted it
\* by the time it ends, on every exit path: cache hit, success, and every
\* failure after the save.
C22_Claimed ==
    \A t \in Threads :
        (Finished(t) /\ call[t].file_path # None) =>
            call[t].file_path[1] \notin uploads

\* the names of the files in RESULT_DIR
ResultNames == {f.name : f \in result_dir}

\* C23: on a cache miss a successful predict takes the steps preprocess,
\* classify, capture, compute, render, persist, cache store in that order,
\* each once; the cache is written only after both artifacts are persisted
\* and only under the key of the lookup, and the result is returned only
\* after the cache store was attempted.
C23_StepOrder ==
    [][\A t \in Threads :
        /\ (call[t].pc = "assembled" /\ call'[t].pc # "assembled") =>
              /\ HeatmapFile(t) \in ResultNames
              /\ SuperimposedFile(t) \in ResultNames
              /\ call[t].cache_key =
                     Some(CacheKey(call[t].file.content, call[t].cam_method))
              /\ \A k \in CacheKeys :
                     redis_store'[k] # redis_store[k] => k = call[t].cache_key[1]
              /\ call'[t].cache_writes = 1
        /\ (call'[t].pc = "done" /\ call[t].pc # "done" /\ ~call'[t].hit) =>
              /\ call[t].pc = "assembled"
              /\ call'[t].steps = <<"preprocess", "classify", "capture", "compute",
                                    "render", "persist", "cache_store">>
              /\ call'[t].cache_reads = 1
              /\ call'[t].cam_calls = 1
              /\ call'[t].results # None]_vars

\* a miss has gone through every step and its result is in the cache under
\* the key of its lookup
C23_Witness ==
    /\ call[1].pc = "done"
    /\ ~call[1].hit
    /\ call[1].cached
    /\ Len(call[1].steps) = 7
    /\ redis_store[call[1].cache_key[1]] # None

\* C24: the capture hooks of an invocation are dropped when it finishes: with
\* no invocation in flight the hooks on the target layer are those of before
\* the first invocation, and the recorder of a finished invocation holds no
\* tensor of a later pass.
C24_Claimed ==
    (\A t \in Threads : call[t].pc = "idle" \/ Finished(t)) =>
        /\ hooks = 0
        /\ Registered(recorders) = {}
        /\ \A obj \in CamObjects :
               /\ \A i \in 1..Len(recorders[obj].activations) :
                      recorders[obj].activations[i] = obj
               /\ \A i \in 1..Len(recorders[obj].gradients) :
                      recorders[obj].gradients[i] = obj

\* C25: all three CAM variants return the map at the spatial resolution of the
\* target layer (one element per position of the captured activation), never
\* at the resolution of the network input.
C25_Claimed ==
    Returned => DOMAIN cam.out = Pixels

----------------------------------------------------------------------------
(* Claims about the cache between requests *)

\* the key made of the hash of this invocation's bytes and of its method
OwnKey(t) == <<"chest_xray", Md5(call[t].file.content), call[t].cam_method>>

\* C26: a cached result is returned only to a request whose bytes' hash and
\* whose cam_method equal those of the request that stored it: a request
\* reads and writes the one entry named by its own hash and method, so the
\* same bytes with another method or the same method with other bytes never
\* share an entry, and the user plays no part: a request of another user with
\* the same bytes and method is served from the entry.
C26_KeyIsHashAndMethod ==
    [][\A t \in Threads :
        /\ (call[t].pc = "saved" /\ call'[t].pc # "saved") =>
              /\ call'[t].cache_key = Some(OwnKey(t))
              /\ redis_store[OwnKey(t)] = None => ~call'[t].hit
              /\ call'[t].hit =>
                     call'[t].results = deserialize_data(redis_store[OwnKey(t)][1])
        /\ (call[t].pc = "assembled" /\ call'[t].pc # "assembled") =>
              \A k \in CacheKeys :
                  redis_store'[k] # redis_store[k] =>
                      /\ k = OwnKey(t)
                      /\ redis_store'[k] = Some(serialize_data(call'[t].results[1]))]_vars

\* a request of one user is served the result another user stored for the
\* same bytes and method, while the other entries of these bytes are empty
C26_Witness ==
    /\ call[1].pc = "done"
    /\ call[1].hit
    /\ last.user_id # call[1].user_id
    /\ last.file.content = call[1].file.content
    /\ last.cam_method = call[1].cam_method
    /\ last.results # None
    /\ \A m \in CamClasses \ {call[1].cam_method} :
           redis_store[<<"chest_xray", Md5(call[1].file.content), m>>] = None

\* the computations in which a list the algorithm reads stays empty
CaptureEmpty ==
    \/ ~cam.wired
    \/ UsesGradients(cam.method) /\ cam.targets = None

\* C27: a GradCAM or GradCAM++ computation for which no gradient was captured
\* since the reset (it is called with targets=None, so no backward pass runs)
\* fails with an error and returns no map; so does every computation whose
\* forward pass captured no activation.
C27_EmptyCaptureFails ==
    /\ CaptureEmpty => cam.pc \in {"constructed", "failed"}
    /\ cam.pc = "failed" =>
           /\ CaptureEmpty
           /\ cam.error = "IndexError"
           /\ cam.out = <<>>

\* GradCAM was called without a target class on a wired layer and has failed
C27_Witness ==
    /\ cam.pc = "failed"
    /\ cam.method = "gradcam"
    /\ cam.targets = None
    /\ cam.wired
    /\ cam.backward = 0

----------------------------------------------------------------------------
(* Claims about the route *)

\* what the caller can tell one outcome from another by
Outcome(response) == <<response.status, response.error>>

\* predict raised for the file name / for anything else
UserInputError(t) == call[t].error = "InvalidFileFormat"

InternalFailure(t) == call[t].error \notin {"none", "InvalidFileFormat"}

\* C28: at the route a user-input error raised by the pipeline (invalid file
\* type, empty filename) is returned as an outcome distinct from the one
\* returned for an internal failure, and an internal failure is surfaced as
\* a generic failure that carries none of its internal detail.
C28_Claimed ==
    \A t \in Threads : call[t].response # None =>
        /\ UserInputError(t) =>
               \A u \in Threads :
                   (call[u].response # None /\ InternalFailure(u)) =>
                       Outcome(call[t].response[1]) # Outcome(call[u].response[1])
        /\ InternalFailure(t) => call[t].response[1].detail = ""

----------------------------------------------------------------------------
(* Claims about the result store *)

\* get_image finds both images a result names
ArtifactsExist(results) ==
    /\ get_image(results.heatmap_path) # None
    /\ get_image(results.superimposed_path) # None

\* C29: in every reachable state and under any interleaving of concurrent
\* predict invocations, each result present in the cache and each result
\* returned to a caller, cache hits included, names a heatmap and an overlay
\* that both exist in the result store, so get_image succeeds for both.
C29_ResultsNameArtifacts ==
    /\ \A k \in CacheKeys :
           (redis_store[k] # None /\ deserialize_data(redis_store[k][1]) # None) =>
               ArtifactsExist(deserialize_data(redis_store[k][1])[1])
    /\ \A t \in Threads :
           call[t].results # None => ArtifactsExist(call[t].results[1])

\* one thread is served from the cache the result another thread stored, and
\* a second result of the same key has been computed meanwhile
C29_Witness ==
    \E t, u \in Threads :
        /\ t # u
        /\ call[t].pc = "done" /\ call[t].hit
        /\ call[u].pc = "done" /\ ~call[u].hit
        /\ call[t].results[1].heatmap_path = call[u].results[1].heatmap_path
        /\ result_dir # {}

----------------------------------------------------------------------------
(* Claims about the ModelManager *)

\* C30: after load_all_models completes, for every configured model the
\* status is "loaded" and the returned map holds True exactly when its loader
\* finished without error; a model whose loading raised is recorded "failed",
\* reported False and not loaded for is_model_loaded.  After a later
\* reload_model that succeeds, is_model_loaded returns True for that model.
C30_Claimed ==
    /\ (manager.pc = "idle" /\ manager.completed = Some(<<"load_all_models">>)) =>
           \A name \in ConfiguredModels :
               /\ (manager.model_status[name] = "loaded" /\ manager.returned[1][name])
                      <=> manager.results[name] = "True"
               /\ manager.results[name] = "False" =>
                      /\ manager.model_status[name] = "failed"
                      /\ ~manager.returned[1][name]
                      /\ ~is_model_loaded(name)
    /\ \A name \in ConfiguredModels :
           (/\ manager.pc = "idle"
            /\ manager.completed = Some(<<"reload_model", name, "True">>)
            /\ manager.returned # None)
               => is_model_loaded(name)

====
